---- MODULE Spec2Model ----
(***************************************************************************)
(* dock-fire: an OCI runtime that boots each container in a Firecracker    *)
(* microVM.  Every verb (create, start, state, kill, delete) is one        *)
(* short-lived process; several of them may run at once against the same   *)
(* state root.  The model keeps the host resources the verbs share (state  *)
(* files, image files, TAP links, packet-filter rules, control sockets,    *)
(* VMM processes) and one program counter per running invocation.          *)
(*                                                                         *)
(* Strings that the code builds or cuts (ids, TAP names, paths, addresses) *)
(* are sequences of byte codes, so that truncation and concatenation are   *)
(* computed as the code computes them.  "" is the empty sequence << >>.    *)
(***************************************************************************)
EXTENDS Integers, Sequences, FiniteSets, Bags, TLC

\* ---- bounds of the model ----
\* candidates the allocator scans (16384 in allocator.go:123)
NumSubnets == 2
\* VMM processes that can be spawned in one behaviour
MaxPid == 2
\* environment failures (a failed external command or file operation) injected in one behaviour
MaxFaults == 2
\* runtime invocations started in one behaviour
MaxInvocations == 3
\* invocations explored when they run one at a time and the environment may fail
MaxSeqInvocations == 2

\* ---- fixed inputs ----
\* container ids "c1" and "c2"
Ids == {<<99, 49>>, <<99, 50>>}
\* runtime invocations that may be in flight at the same time
Slots == {"p", "q"}
FirstSlot == "p"
\* --root /run/dock-fire
RootDir == <<47, 114, 117, 110, 47, 100, 111, 99, 107, 45, 102, 105, 114, 101>>
\* --bundle /b
Bundle == <<47, 98>>
\* default-route interface reported by the host, "eth0"
OutIface == <<101, 116, 104, 48>>

\* ---- container.Status ----
Creating == "creating"
Created == "created"
Running == "running"
Stopped == "stopped"

\* zero value of container.Container
ZeroCtr ==
  [id |-> <<>>, bundle |-> <<>>, status |-> "", pid |-> 0, rootDir |-> <<>>,
   imagePath |-> <<>>, socketPath |-> <<>>, tapDevice |-> <<>>,
   guestIP |-> <<>>, hostIP |-> <<>>, subnetCIDR |-> <<>>]

\* zero value of network.Subnet
ZeroSubnet == [HostIP |-> <<>>, GuestIP |-> <<>>, CIDR |-> <<>>]

\* ---------------------------------------------------------------------------
\* encoding/json, strings and numbers
\* ---------------------------------------------------------------------------

\* the number of bytes of the UTF-8 sequence that starts at s[i], 0 when the
\* bytes there are not valid UTF-8
Utf8Len(s, i) ==
  LET b == s[i]
      cont(j, lo, hi) == j <= Len(s) /\ s[j] >= lo /\ s[j] <= hi
  IN IF b < 128 THEN 1
     ELSE IF b \in 194..223 /\ cont(i + 1, 128, 191) THEN 2
     ELSE IF /\ b \in 224..239
             /\ cont(i + 1, IF b = 224 THEN 160 ELSE 128, IF b = 237 THEN 159 ELSE 191)
             /\ cont(i + 2, 128, 191) THEN 3
     ELSE IF /\ b \in 240..244
             /\ cont(i + 1, IF b = 240 THEN 144 ELSE 128, IF b = 244 THEN 143 ELSE 191)
             /\ cont(i + 2, 128, 191)
             /\ cont(i + 3, 128, 191) THEN 4
     ELSE 0

\* the four lower-case hex digits of n
Hex4(n) ==
  LET digit(d) == IF d < 10 THEN 48 + d ELSE 87 + d
  IN <<digit(n \div 4096), digit((n \div 256) % 16), digit((n \div 16) % 16), digit(n % 16)>>

\* \uXXXX
EscapeU(n) == <<92, 117>> \o Hex4(n)

\* bytes json.Marshal writes as they are inside a string
IsPlainByte(b) == b \in 32..127 /\ b \notin {34, 92, 60, 62, 38}

RECURSIVE EncodeFrom(_, _)
\* the JSON string for s from position i on: quote and backslash escaped,
\* control characters, <, > and & and the line separators written \uXXXX (or
\* \n, \r, \t), bytes that are not valid UTF-8 replaced by U+FFFD
EncodeFrom(s, i) ==
  IF i > Len(s) THEN <<>>
  ELSE LET b == s[i]
           n == Utf8Len(s, i)
       IN IF b \in {34, 92} THEN <<92, b>> \o EncodeFrom(s, i + 1)
          ELSE IF b = 10 THEN <<92, 110>> \o EncodeFrom(s, i + 1)
          ELSE IF b = 13 THEN <<92, 114>> \o EncodeFrom(s, i + 1)
          ELSE IF b = 9 THEN <<92, 116>> \o EncodeFrom(s, i + 1)
          ELSE IF b < 32 \/ b \in {60, 62, 38} THEN EscapeU(b) \o EncodeFrom(s, i + 1)
          ELSE IF n = 0 THEN EscapeU(65533) \o EncodeFrom(s, i + 1)
          ELSE IF n = 3 /\ b = 226 /\ s[i + 1] = 128 /\ s[i + 2] \in {168, 169}
            THEN EscapeU(8192 + s[i + 2] - 128) \o EncodeFrom(s, i + 3)
          ELSE SubSeq(s, i, i + n - 1) \o EncodeFrom(s, i + n)

\* json.Marshal of a Go string, without the surrounding quotes
EncodeString(s) ==
  IF \A i \in 1..Len(s) : IsPlainByte(s[i]) THEN s ELSE EncodeFrom(s, 1)

\* the UTF-8 encoding of a code point of the basic plane
Utf8Of(n) ==
  IF n < 128 THEN <<n>>
  ELSE IF n < 2048 THEN <<192 + (n \div 64), 128 + (n % 64)>>
  ELSE <<224 + (n \div 4096), 128 + ((n \div 64) % 64), 128 + (n % 64)>>

RECURSIVE DecodeFrom(_, _)
\* the Go string for the JSON string j from position i on
DecodeFrom(j, i) ==
  IF i > Len(j) THEN <<>>
  ELSE IF j[i] # 92 THEN <<j[i]>> \o DecodeFrom(j, i + 1)
  ELSE IF j[i + 1] = 117
    THEN LET v(k) == IF j[k] \in 48..57 THEN j[k] - 48
                     ELSE IF j[k] \in 97..102 THEN j[k] - 87 ELSE j[k] - 55
         IN Utf8Of(4096 * v(i + 2) + 256 * v(i + 3) + 16 * v(i + 4) + v(i + 5))
              \o DecodeFrom(j, i + 6)
  ELSE <<(CASE j[i + 1] = 110 -> 10 [] j[i + 1] = 114 -> 13 [] j[i + 1] = 116 -> 9
            [] j[i + 1] = 98 -> 8 [] j[i + 1] = 102 -> 12 [] OTHER -> j[i + 1])>>
         \o DecodeFrom(j, i + 2)

\* json.Unmarshal of a JSON string into a Go string
DecodeString(j) ==
  IF \A i \in 1..Len(j) : j[i] # 92 THEN j ELSE DecodeFrom(j, 1)

RECURSIVE FormatNat(_)
\* the decimal digits of a natural number
FormatNat(n) == IF n < 10 THEN <<48 + n>> ELSE FormatNat(n \div 10) \o <<48 + (n % 10)>>

\* FormatInt as it would be if every int were written as 0
FormatInt_zero(n) == <<48>>

\* json.Marshal of an int
FormatInt(n) == IF n < 0 THEN <<45>> \o FormatNat(0 - n) ELSE FormatNat(n)

RECURSIVE ParseNat(_, _)
\* the natural number written by the digits s, continuing from acc
ParseNat(s, acc) ==
  IF s = <<>> THEN acc ELSE ParseNat(SubSeq(s, 2, Len(s)), acc * 10 + (s[1] - 48))

\* json.Unmarshal of a JSON number into an int
ParseNumber(s) ==
  IF s[1] = 45 THEN 0 - ParseNat(SubSeq(s, 2, Len(s)), 0) ELSE ParseNat(s, 0)

\* the fields of a Container that hold text of the caller's or the host's choosing
TextFields == {"id", "bundle", "rootDir", "imagePath", "socketPath", "tapDevice"}

\* the JSON value of field f holding v
EncodeField(f, v) ==
  IF f \in TextFields THEN EncodeString(v) ELSE IF f = "pid" THEN FormatInt(v) ELSE v

\* the Go value of field f from its JSON value j
DecodeField(f, j) ==
  IF f \in TextFields THEN DecodeString(j) ELSE IF f = "pid" THEN ParseNumber(j) ELSE j

\* fields tagged omitempty in the json struct tags
OmitEmpty == {"pid", "imagePath", "socketPath", "tapDevice", "guestIP", "hostIP", "subnetCIDR"}

IsZeroField(f, v) == IF f = "pid" THEN v = 0 ELSE v = <<>>

\* json.MarshalIndent of a Container: the object holds every field that is
\* not omitempty, and the omitempty fields that are not zero
Marshal(c) ==
  [f \in {g \in DOMAIN c : g \notin OmitEmpty \/ ~IsZeroField(g, c[g])} |->
     EncodeField(f, c[f])]

\* json.Unmarshal into a zero Container: absent keys keep the zero value
Unmarshal(d) ==
  [f \in DOMAIN ZeroCtr |-> IF f \in DOMAIN d THEN DecodeField(f, d[f]) ELSE ZeroCtr[f]]

\* contents of {root}/{id}/state.json
NoFile == [kind |-> "none"]
Truncated == [kind |-> "partial"]
JsonFile(c) == [kind |-> "json", data |-> Marshal(c)]

Min(a, b) == IF a < b THEN a ELSE b

\* strings.HasPrefix
HasPrefix(s, pre) == Len(s) >= Len(pre) /\ SubSeq(s, 1, Len(pre)) = pre

\* "df-"
DfPrefix == <<100, 102, 45>>
TapIdLen == 8
\* network.TAPName: "df-" + id[:8]
TAPName(id) == DfPrefix \o SubSeq(id, 1, Min(Len(id), TapIdLen))

SockIdLen == 12
\* the socket path as it would be with the whole id in it
SocketPathOf_whole(id) ==
  <<47, 116, 109, 112, 47, 102, 99, 45>> \o id \o <<46, 115, 111, 99, 107>>

\* "/tmp/fc-" + id[:12] + ".sock"
SocketPathOf(id) ==
  <<47, 116, 109, 112, 47, 102, 99, 45>> \o SubSeq(id, 1, Min(Len(id), SockIdLen))
    \o <<46, 115, 111, 99, 107>>

\* filepath.Join(rootDir, id, "rootfs.ext4")
ImagePathOf(root, id) ==
  root \o <<47>> \o id \o <<47, 114, 111, 111, 116, 102, 115, 46, 101, 120, 116, 52>>

VARIABLES
  disk,     \* id -> contents of state.json
  dirs,     \* ids whose state directory exists
  image,    \* ids whose rootfs.ext4 exists
  taps,     \* host links: name -> set of addresses "a.b.c.d/len" attached
  rules,    \* bag of installed packet-filter rules
  socks,    \* control-socket paths present in /tmp
  procs,    \* pids of live VMM processes
  nextPid,  \* pid the next spawned VMM receives
  sig,      \* signals the last step delivered, <<pid, signal>>
  faults,   \* environment failures that may still be injected
  usable,   \* slots invocations may run in
  started,  \* invocations started so far
  inv,      \* slot -> the invocation running in it
  last,     \* what the invocation that returned in the last step reported
  hist      \* id -> status last written in full to the current state.json ("" if none)

hostVars == <<disk, dirs, image, taps, rules, socks, procs, nextPid>>
vars == <<disk, dirs, image, taps, rules, socks, procs, nextPid, sig, faults, usable, started, inv, last, hist>>

\* a slot in which no invocation runs
IdleInv ==
  [verb |-> "", id |-> <<>>, pc |-> "idle", force |-> FALSE, ctr |-> ZeroCtr,
   sub |-> ZeroSubnet, ipOk |-> TRUE, fd |-> "none"]

\* no invocation returned in the last step
NoResult ==
  [verb |-> "", id |-> <<>>, err |-> "", out |-> "", pidfile |-> 0,
   force |-> FALSE, sigStr |-> <<>>]

\* the host before any container was created
InitHost ==
  /\ disk = [i \in Ids |-> NoFile]
  /\ dirs = {}
  /\ image = {}
  /\ taps = [n \in {} |-> {}]
  /\ rules = EmptyBag
  /\ socks = {}
  /\ procs = {}
  /\ nextPid = 1
  /\ sig = {}
  /\ started = 0
  /\ inv = [p \in Slots |-> IdleInv]
  /\ last = NoResult
  /\ hist = [i \in Ids |-> ""]

\* invocations overlap freely and the environment never fails
Init == InitHost /\ usable = Slots /\ faults = 0

\* invocations run one after the other and the environment fails up to MaxFaults times
InitSeq == InitHost /\ usable = {FirstSlot} /\ faults = MaxFaults

\* ---------------------------------------------------------------------------
\* State store (internal/container)
\* ---------------------------------------------------------------------------

\* Exists as it would be if the check looked at nothing
Exists_never(id) == FALSE

\* container.Exists: os.Stat(state.json) succeeds
Exists(id) == disk[id].kind # "none"

\* Load as it would be if a file that does not unmarshal gave an empty record
Load_lenient(id) ==
  IF disk[id].kind = "none" THEN [err |-> "does not exist", ctr |-> ZeroCtr]
  ELSE IF disk[id].kind = "partial" THEN [err |-> "", ctr |-> ZeroCtr]
  ELSE [err |-> "", ctr |-> Unmarshal(disk[id].data)]

\* container.Load: read and unmarshal state.json
Load(id) ==
  IF disk[id].kind = "none" THEN [err |-> "does not exist", ctr |-> ZeroCtr]
  ELSE IF disk[id].kind = "partial" THEN [err |-> "unmarshal state", ctr |-> ZeroCtr]
  ELSE [err |-> "", ctr |-> Unmarshal(disk[id].data)]

\* container.List: the directories under the state root
List == dirs

\* Transition as it would be if it accepted the move without recording it
Transition_keepsStatus(c, to) == [ok |-> TRUE, ctr |-> c]

\* Container.Transition: the new container and whether the move is legal
Transition(c, to) ==
  LET valid == [s \in {Creating, Created, Running} |->
                  IF s = Creating THEN {Created}
                  ELSE IF s = Created THEN {Running} ELSE {Stopped}]
  IN IF c.status \notin DOMAIN valid THEN [ok |-> FALSE, ctr |-> c]
     ELSE IF to \in valid[c.status] THEN [ok |-> TRUE, ctr |-> [c EXCEPT !.status = to]]
     ELSE [ok |-> FALSE, ctr |-> c]

\* Container.IsVMMAlive: signal 0 to the pid succeeds; pid <= 0 is dead
IsVMMAlive(c, live) == IF c.pid <= 0 THEN FALSE ELSE c.pid \in live

\* EffectiveStatus as it would be if a dead VMM also turned created into stopped
EffectiveStatus_anyDead(c, live) ==
  IF c.status \in {Created, Running} /\ ~IsVMMAlive(c, live) THEN Stopped ELSE c.status

\* Container.EffectiveStatus
EffectiveStatus(c, live) ==
  IF c.status = Running /\ ~IsVMMAlive(c, live) THEN Stopped ELSE c.status

\* oci.MarshalState: the OCI state document printed by `state`
MarshalState(c, live) ==
  [ociVersion |-> "1.0.2", id |-> c.id, status |-> EffectiveStatus(c, live),
   pid |-> c.pid, bundle |-> c.bundle]

\* ---------------------------------------------------------------------------
\* Subnet allocator (internal/network/allocator.go)
\* ---------------------------------------------------------------------------

\* net.ParseCIDR(s) followed by ipNet.String(): the address masked to its prefix
\* (only prefixes of 24 bits and more occur on the links of the model)
MaskCIDR(a) ==
  LET span == 2 ^ (32 - a[5])
  IN <<a[1], a[2], a[3], a[4] - (a[4] % span), a[5]>>

\* usedTAPSubnets as it would be without the scan of the host links
usedTAPSubnets_none(ipOk) == {}

\* usedTAPSubnets: the masked inet addresses of the links named df-*;
\* nothing when `ip -o addr show` fails
usedTAPSubnets(ipOk) ==
  IF ~ipOk THEN {}
  ELSE {MaskCIDR(a) : a \in UNION {taps[n] : n \in {m \in DOMAIN taps : HasPrefix(m, DfPrefix)}}}

\* the subnetCIDR of every record under the root that loads and has one
usedStateSubnets ==
  {Load(i).ctr.subnetCIDR : i \in {j \in List : Load(j).err = "" /\ Load(j).ctr.subnetCIDR # <<>>}}

\* networkIP of candidate i: 10.0.(byte(offset >> 8)).(byte(offset & 0xff)), offset = uint32(i * 4)
\* (i < 16384, so i * 4 < 2^16 and the uint32 conversion is exact)
NetworkIP(i) ==
  LET offset == i * 4
  IN <<10, 0, (offset \div 256) % 256, offset % 256>>

CandidateCIDR(i) == NetworkIP(i) \o <<30>>

\* SubnetOf as it would be with the two offsets exchanged
SubnetOf_swapped(i) ==
  LET n == NetworkIP(i)
  IN [HostIP |-> <<n[1], n[2], n[3], (n[4] + 2) % 256>>,
      GuestIP |-> <<n[1], n[2], n[3], (n[4] + 1) % 256>>,
      CIDR |-> CandidateCIDR(i)]

\* the Subnet built for candidate i: hostIP[3] += 1, guestIP[3] += 2 on bytes
SubnetOf(i) ==
  LET n == NetworkIP(i)
  IN [HostIP |-> <<n[1], n[2], n[3], (n[4] + 1) % 256>>,
      GuestIP |-> <<n[1], n[2], n[3], (n[4] + 2) % 256>>,
      CIDR |-> CandidateCIDR(i)]

RECURSIVE ScanFrom(_, _)
\* the for loop of AllocateSubnet from candidate i on
ScanFrom(i, used) ==
  IF i >= NumSubnets THEN [err |-> "no free subnet", sub |-> ZeroSubnet]
  ELSE IF CandidateCIDR(i) \in used THEN ScanFrom(i + 1, used)
  ELSE [err |-> "", sub |-> SubnetOf(i)]

\* AllocateSubnet as it would be without the scan of the stored records
AllocateSubnet_tapsOnly(ipOk) == ScanFrom(0, usedTAPSubnets(ipOk))

\* network.AllocateSubnet
AllocateSubnet(ipOk) == ScanFrom(0, usedStateSubnets \cup usedTAPSubnets(ipOk))

\* ---------------------------------------------------------------------------
\* Network provisioner (internal/network/tap.go, nat.go, setup.go)
\* ---------------------------------------------------------------------------

\* the link `name` exists afterwards, with the addresses it had
WithLink(t, name) ==
  [n \in DOMAIN t \cup {name} |-> IF n \in DOMAIN t THEN t[n] ELSE {}]

\* the link `name` exists afterwards and carries address a as well
AddAddr(t, name, a) ==
  [n \in DOMAIN t \cup {name} |->
     IF n = name THEN (IF name \in DOMAIN t THEN t[name] ELSE {}) \cup {a} ELSE t[n]]

\* `ip link del name`
DelLink(t, name) == [n \in DOMAIN t \ {name} |-> t[n]]

\* network.CreateTAP on the links t: `ip tuntap add`, `ip addr add hostIP/30`,
\* `ip link set up`.  failAt = k > 0: command k fails; busy: the kernel refuses to
\* attach to an existing link of that name.  An address the link already
\* carries cannot be added again.  Nothing is undone on failure.
CreateTAP(t, name, hostIP, failAt, busy) ==
  LET addr == hostIP \o <<30>>
  IN IF failAt = 1 \/ (name \in DOMAIN t /\ busy) THEN [ok |-> FALSE, taps |-> t]
     ELSE IF failAt = 2 \/ (name \in DOMAIN t /\ addr \in t[name])
       THEN [ok |-> FALSE, taps |-> WithLink(t, name)]
     ELSE IF failAt = 3 THEN [ok |-> FALSE, taps |-> AddAddr(t, name, addr)]
     ELSE [ok |-> TRUE, taps |-> AddAddr(t, name, addr)]

\* the three iptables rules of one container, in the order they are added
NatRules(tapName, subnetCIDR, outIface) ==
  << [table |-> "nat", chain |-> "POSTROUTING", src |-> subnetCIDR, inIf |-> <<>>,
      outIf |-> outIface, target |-> "MASQUERADE"],
     [table |-> "filter", chain |-> "FORWARD", src |-> <<>>, inIf |-> tapName,
      outIf |-> outIface, target |-> "ACCEPT"],
     [table |-> "filter", chain |-> "FORWARD", src |-> <<>>, inIf |-> outIface,
      outIf |-> tapName, target |-> "ACCEPT-ESTABLISHED"] >>

\* network.SetupNAT on the rule bag r.  failAt: 0 none, 1 default-interface
\* detection, 2 the sysctl, 3..5 the first, second, third iptables -A.
\* The rules added before the failing command stay.
SetupNAT(r, tapName, subnetCIDR, failAt) ==
  LET rs == NatRules(tapName, subnetCIDR, OutIface)
      firstN(n) == SetToBag({rs[i] : i \in 1..n})
  IN IF failAt \in {1, 2} THEN [ok |-> FALSE, rules |-> r]
     ELSE IF failAt \in 3..5 THEN [ok |-> FALSE, rules |-> r (+) firstN(failAt - 3)]
     ELSE [ok |-> TRUE, rules |-> r (+) firstN(3)]

\* network.TeardownNAT on the rule bag r.  failAt: 0 none, 1 default-interface
\* detection (nothing is removed), 2..4 the first, second, third iptables -D
\* (that rule stays, the others are removed).  Never an error.
TeardownNAT(r, tapName, subnetCIDR, failAt) ==
  LET rs == NatRules(tapName, subnetCIDR, OutIface)
  IN IF failAt = 1 THEN r
     ELSE r (-) SetToBag({rs[i] : i \in (1..3) \ {failAt - 1}})

\* DeleteTAP as it would be if it deleted nothing
DeleteTAP_keeps(t, name, fail) == [ok |-> name \in DOMAIN t, taps |-> t]

\* network.DeleteTAP on the links t: `ip link del name`
DeleteTAP(t, name, fail) ==
  IF fail \/ name \notin DOMAIN t THEN [ok |-> FALSE, taps |-> t]
  ELSE [ok |-> TRUE, taps |-> DelLink(t, name)]

\* Teardown as it would be if it gave up after a failure of TeardownNAT
Teardown_stopsAtNAT(c, t, r, natFail, tapFail) ==
  IF c.tapDevice = <<>> THEN [err |-> "", taps |-> t, rules |-> r]
  ELSE IF c.subnetCIDR # <<>> /\ natFail # 0
    THEN [err |-> "teardown NAT", taps |-> t,
          rules |-> TeardownNAT(r, c.tapDevice, c.subnetCIDR, natFail)]
  ELSE [err |-> "",
        taps |-> DeleteTAP(t, c.tapDevice, tapFail).taps,
        rules |-> IF c.subnetCIDR # <<>>
                    THEN TeardownNAT(r, c.tapDevice, c.subnetCIDR, natFail) ELSE r]

\* network.Teardown: nothing without a tapDevice; TeardownNAT when there is a
\* subnetCIDR; DeleteTAP in any case; the error returned is always nil
Teardown(c, t, r, natFail, tapFail) ==
  IF c.tapDevice = <<>> THEN [err |-> "", taps |-> t, rules |-> r]
  ELSE [err |-> "",
        taps |-> DeleteTAP(t, c.tapDevice, tapFail).taps,
        rules |-> IF c.subnetCIDR # <<>>
                    THEN TeardownNAT(r, c.tapDevice, c.subnetCIDR, natFail) ELSE r]

\* ---------------------------------------------------------------------------
\* VMM launcher: Stop (vm package)
\* ---------------------------------------------------------------------------

\* vm.Stop: SIGTERM, then SIGKILL when the signal-0 probe still finds the process
\* (gone == the process had already exited at the probe); never an error.
\* The live processes afterwards and the signals delivered.
StopVM(c, live, gone) ==
  IF c.pid <= 0 THEN [procs |-> live, sig |-> {}]
  ELSE IF c.pid \notin live THEN [procs |-> live, sig |-> {}]
  ELSE [procs |-> live \ {c.pid},
        sig |-> {<<c.pid, "TERM">>} \cup (IF gone THEN {} ELSE {<<c.pid, "KILL">>})]

\* ---------------------------------------------------------------------------
\* Signals (internal/runtime/kill.go)
\* ---------------------------------------------------------------------------

\* strings.ToUpper on ASCII
ToUpper(s) == [i \in 1..Len(s) |-> IF s[i] \in 97..122 THEN s[i] - 32 ELSE s[i]]

\* strings.TrimPrefix
TrimPrefix(s, pre) == IF HasPrefix(s, pre) THEN SubSeq(s, Len(pre) + 1, Len(s)) ELSE s

\* the signal names parseSignal knows, with their numbers
SignalNames ==
  { <<(<<72, 85, 80>>), 1>>, <<(<<73, 78, 84>>), 2>>, <<(<<81, 85, 73, 84>>), 3>>,
    <<(<<75, 73, 76, 76>>), 9>>, <<(<<84, 69, 82, 77>>), 15>>,
    <<(<<85, 83, 82, 49>>), 10>>, <<(<<85, 83, 82, 50>>), 12>> }

RECURSIVE DigitsValue(_, _)
\* the decimal value of the digits s, continuing from acc
DigitsValue(s, acc) ==
  IF s = <<>> THEN acc ELSE DigitsValue(SubSeq(s, 2, Len(s)), acc * 10 + (s[1] - 48))

\* strconv.Atoi: an optional sign and at least one digit, nothing else
Atoi(s) ==
  LET signed == s # <<>> /\ s[1] \in {43, 45}
      digits == IF signed THEN SubSeq(s, 2, Len(s)) ELSE s
  IN IF digits = <<>> \/ \E i \in 1..Len(digits) : digits[i] \notin 48..57
       THEN [ok |-> FALSE, n |-> 0]
       ELSE [ok |-> TRUE,
             n |-> IF signed /\ s[1] = 45 THEN 0 - DigitsValue(digits, 0)
                   ELSE DigitsValue(digits, 0)]

\* parseSignal as it would be without the upper-casing and the SIG prefix cut
parseSignal_exact(s) ==
  IF \E e \in SignalNames : e[1] = s
    THEN (CHOOSE e \in SignalNames : e[1] = s)[2]
  ELSE IF Atoi(s).ok THEN Atoi(s).n
  ELSE 0

\* parseSignal: the name without SIG, in any case, or a number; 0 when unknown
parseSignal(s) ==
  LET t == TrimPrefix(ToUpper(s), <<83, 73, 71>>)
  IN IF \E e \in SignalNames : e[1] = t
       THEN (CHOOSE e \in SignalNames : e[1] = t)[2]
     ELSE IF Atoi(t).ok THEN Atoi(t).n
     ELSE 0

\* the signal argument of kill; SIGTERM when none is given
SignalArg(sigStr) == IF sigStr = <<>> THEN <<83, 73, 71, 84, 69, 82, 77>> ELSE sigStr

\* the signal arguments tried: none, "SIGKILL", "usr1", "FOO", "0", "99"
SigArgs ==
  { <<>>, <<83, 73, 71, 75, 73, 76, 76>>, <<117, 115, 114, 49>>, <<70, 79, 79>>,
    <<48>>, <<57, 57>> }

\* syscall.Kill(pid, n) with the live processes `live`: EINVAL for a number
\* that is no signal, ESRCH when no process has the pid; otherwise the signal
\* is delivered, and the process ends when the signal is SIGKILL or when it
\* does not survive it (dies).
SysKill(pid, n, live, dies) ==
  IF n \notin 0..64 THEN [err |-> "EINVAL", procs |-> live, sig |-> {}]
  ELSE IF pid \notin live THEN [err |-> "ESRCH", procs |-> live, sig |-> {}]
  ELSE [err |-> "", sig |-> {<<pid, n>>},
        procs |-> IF n = 9 \/ dies THEN live \ {pid} ELSE live]

\* ---------------------------------------------------------------------------
\* Invocations
\* ---------------------------------------------------------------------------

\* a new invocation takes slot p: the slot is free, and the other slots are
\* used only while the first one is taken (which slot runs an invocation is
\* immaterial)
Begin(p) ==
  /\ p \in usable
  /\ inv[p].pc = "idle"
  /\ p # FirstSlot => inv[FirstSlot].pc # "idle"
  /\ started < (IF usable = Slots THEN MaxInvocations ELSE MaxSeqInvocations)
  /\ started' = started + 1

\* a fresh invocation of `verb id`
NewInv(verb, id, force) == [IdleInv EXCEPT !.verb = verb, !.id = id, !.force = force]

\* the invocation in slot p goes on as r
Step(p, r) == inv' = [inv EXCEPT ![p] = r] /\ last' = NoResult

\* the invocation `verb id` in slot p returns error e ("" is success), having
\* printed out and written pf to its pid-file
Return(p, verb, id, e, out, pf) ==
  /\ inv' = [inv EXCEPT ![p] = IdleInv]
  /\ last' = [NoResult EXCEPT !.verb = verb, !.id = id, !.err = e, !.out = out, !.pidfile = pf]

\* the same for `kill id sigStr`
ReturnKill(p, id, sigStr, e) ==
  /\ inv' = [inv EXCEPT ![p] = IdleInv]
  /\ last' = [NoResult EXCEPT !.verb = "kill", !.id = id, !.err = e, !.sigStr = sigStr]

\* what `delete id` reports, with or without --force
DeleteResult(id, force, e) ==
  [NoResult EXCEPT !.verb = "delete", !.id = id, !.err = e, !.force = force]

\* one more environment failure is injected in this step
Fault == faults > 0 /\ faults' = faults - 1

\* n more environment failures are injected in this step
Faults(n) == faults >= n /\ faults' = faults - n

\* create invocations that have not returned yet
CreatesInFlight == {q \in Slots : inv[q].verb = "create" /\ inv[q].pc # "idle"}

\* os.RemoveAll of the state directory of id, seen from the other invocations:
\* a descriptor held open on the old state.json now refers to an unlinked file
RemoveAllInv(iv, id) ==
  [q \in Slots |-> IF iv[q].id = id /\ iv[q].fd = "open"
                     THEN [iv[q] EXCEPT !.fd = "unlinked"] ELSE iv[q]]

\* ---------------------------------------------------------------------------
\* create (CreateCommand.Action)
\* ---------------------------------------------------------------------------

\* The existence check, oci.LoadConfig, the record in status creating (in
\* memory only) and createRootfsImage -> rootfs.CreateImage.  When CreateImage
\* fails the state directory and the image file exist or not, depending on the
\* command that failed (MkdirAll / dirSize / truncate, mkfs, mount, cp).
CreateBegin(p, id) ==
  /\ Begin(p)
  /\ nextPid + Cardinality(CreatesInFlight) <= MaxPid
  /\ \/ /\ Exists(id)
        /\ Return(p, "create", id, "already exists", "", 0)
        /\ UNCHANGED <<dirs, image, faults>>
     \/ /\ ~Exists(id)
        /\ Fault
        /\ Return(p, "create", id, "load OCI config", "", 0)
        /\ UNCHANGED <<dirs, image>>
     \/ /\ ~Exists(id)
        /\ \E made \in {"nothing", "dir", "file"} :
             /\ Fault
             /\ dirs' = IF made = "nothing" THEN dirs ELSE dirs \cup {id}
             /\ image' = IF made = "file" THEN image \cup {id} ELSE image
             /\ Return(p, "create", id, "create rootfs image", "", 0)
     \/ /\ ~Exists(id)
        /\ dirs' = dirs \cup {id}
        /\ image' = image \cup {id}
        /\ Step(p, [NewInv("create", id, FALSE) EXCEPT
                      !.pc = "c_alloc",
                      !.ctr = [ZeroCtr EXCEPT !.id = id, !.bundle = Bundle,
                                              !.status = Creating, !.rootDir = RootDir,
                                              !.imagePath = ImagePathOf(RootDir, id)]])
        /\ UNCHANGED faults
  /\ sig' = {}
  /\ UNCHANGED usable
  /\ UNCHANGED <<disk, taps, rules, socks, procs, nextPid, hist>>

\* setupNetworking -> network.Setup, first half: AllocateSubnet
SetupAlloc(p) ==
  /\ inv[p].pc = "c_alloc"
  /\ \E ipOk \in BOOLEAN :
       /\ IF ipOk THEN UNCHANGED faults ELSE Fault
       /\ LET r == AllocateSubnet(ipOk)
          IN IF r.err # ""
               THEN Return(p, "create", inv[p].id, "setup networking: allocate subnet", "", 0)
             ELSE Step(p, [inv[p] EXCEPT !.pc = "c_net", !.sub = r.sub, !.ipOk = ipOk])
  /\ sig' = {}
  /\ UNCHANGED <<started, usable>>
  /\ UNCHANGED <<hostVars, hist>>

\* network.Setup, second half: CreateTAP, SetupNAT (DeleteTAP when it fails,
\* its own failure ignored), then the four network fields of the record
SetupNet(p) ==
  /\ inv[p].pc = "c_net"
  /\ LET c == inv[p].ctr
         sub == inv[p].sub
         tapName == TAPName(c.id)
     IN \E k \in 0..3, j \in 0..5, busy \in BOOLEAN, delFail \in BOOLEAN :
          LET tapR == CreateTAP(taps, tapName, sub.HostIP, k, busy)
              natR == SetupNAT(rules, tapName, sub.CIDR, j)
          IN /\ k = 0 \/ j = 0
             /\ j # 0 => tapR.ok
             /\ delFail => j # 0
             /\ Faults((IF k # 0 \/ j # 0 THEN 1 ELSE 0) + (IF delFail THEN 1 ELSE 0))
             /\ IF ~tapR.ok
                  THEN /\ taps' = tapR.taps
                       /\ UNCHANGED rules
                       /\ Return(p, "create", c.id, "setup networking: create TAP", "", 0)
                ELSE IF ~natR.ok
                  THEN /\ taps' = DeleteTAP(tapR.taps, tapName, delFail).taps
                       /\ rules' = natR.rules
                       /\ Return(p, "create", c.id, "setup networking: setup NAT", "", 0)
                ELSE /\ taps' = tapR.taps
                     /\ rules' = natR.rules
                     /\ Step(p, [inv[p] EXCEPT !.pc = "c_vm",
                                               !.ctr = [c EXCEPT !.tapDevice = tapName,
                                                                 !.guestIP = sub.GuestIP,
                                                                 !.hostIP = sub.HostIP,
                                                                 !.subnetCIDR = sub.CIDR]])
  /\ sig' = {}
  /\ UNCHANGED <<started, usable>>
  /\ UNCHANGED <<disk, dirs, image, socks, procs, nextPid, hist>>

\* startVM -> vm.Start: BuildConfig sets the socket path, a stale socket is
\* removed, the log files are created inside the state directory, the VMM is
\* spawned and its pid captured; then Transition(Created)
CreateVM(p) ==
  /\ inv[p].pc = "c_vm"
  /\ LET c == inv[p].ctr
         sock == SocketPathOf(c.id)
     IN \/ /\ c.id \notin dirs
           /\ socks' = socks \ {sock}
           /\ Return(p, "create", c.id, "start VM", "", 0)
           /\ UNCHANGED <<procs, nextPid, faults>>
        \/ /\ c.id \in dirs
           /\ Fault
           /\ socks' = socks \ {sock}
           /\ Return(p, "create", c.id, "start VM", "", 0)
           /\ UNCHANGED <<procs, nextPid>>
        \/ /\ c.id \in dirs
           /\ nextPid <= MaxPid
           /\ procs' = procs \cup {nextPid}
           /\ nextPid' = nextPid + 1
           /\ socks' = socks \cup {sock}
           /\ LET tr == Transition([c EXCEPT !.socketPath = sock, !.pid = nextPid], Created)
              IN IF tr.ok THEN Step(p, [inv[p] EXCEPT !.pc = "save_open", !.ctr = tr.ctr])
                 ELSE Return(p, "create", c.id, "transition to created", "", 0)
           /\ UNCHANGED faults
  /\ sig' = {}
  /\ UNCHANGED <<started, usable>>
  /\ UNCHANGED <<disk, dirs, image, taps, rules, hist>>

\* Container.Save, first half: MkdirAll and the open of os.WriteFile, which
\* creates or truncates state.json
SaveOpen(p) ==
  /\ inv[p].pc = "save_open"
  /\ LET id == inv[p].ctr.id
     IN \/ /\ dirs' = dirs \cup {id}
           /\ disk' = [disk EXCEPT ![id] = Truncated]
           /\ Step(p, [inv[p] EXCEPT !.pc = "save_write", !.fd = "open"])
           /\ UNCHANGED faults
        \/ /\ Fault
           /\ Return(p, inv[p].verb, id, "save state", "", 0)
           /\ UNCHANGED <<disk, dirs>>
  /\ sig' = {}
  /\ UNCHANGED <<started, usable>>
  /\ UNCHANGED <<image, taps, rules, socks, procs, nextPid, hist>>

\* Container.Save, second half: the write of os.WriteFile; then the caller's
\* tail: create writes the pid-file when --pid-file is given, start returns
SaveWrite(p) ==
  /\ inv[p].pc = "save_write"
  /\ LET c == inv[p].ctr
         verb == inv[p].verb
         Rest == \/ /\ verb = "create"
                    /\ \E given \in BOOLEAN :
                         Return(p, verb, c.id, "", "", IF given THEN c.pid ELSE 0)
                    /\ UNCHANGED faults
                 \/ /\ verb = "create"
                    /\ Fault
                    /\ Return(p, verb, c.id, "write pid file", "", 0)
                 \/ /\ verb # "create"
                    /\ Return(p, verb, c.id, "", "", 0)
                    /\ UNCHANGED faults
     IN \/ /\ inv[p].fd = "open"
           /\ disk' = [disk EXCEPT ![c.id] = JsonFile(c)]
           /\ hist' = [hist EXCEPT ![c.id] = c.status]
           /\ Rest
        \/ /\ inv[p].fd = "unlinked"
           /\ Rest
           /\ UNCHANGED <<disk, hist>>
        \/ /\ Fault
           /\ Return(p, verb, c.id, "save state", "", 0)
           /\ UNCHANGED <<disk, hist>>
  /\ sig' = {}
  /\ UNCHANGED <<started, usable>>
  /\ UNCHANGED <<dirs, image, taps, rules, socks, procs, nextPid>>

\* ---------------------------------------------------------------------------
\* start (StartCommand.Action)
\* ---------------------------------------------------------------------------

\* StartLoad as it would be if it set the status without looking at the stored one
StartLoad_unchecked(p, id) ==
  /\ Begin(p)
  /\ LET l == Load(id)
     IN IF l.err # "" THEN Return(p, "start", id, l.err, "", 0)
        ELSE Step(p, [NewInv("start", id, FALSE) EXCEPT
                        !.pc = "save_open", !.ctr = [l.ctr EXCEPT !.status = Running]])
  /\ sig' = {}
  /\ UNCHANGED usable
  /\ UNCHANGED <<hostVars, faults, hist>>

\* Load, the status check and Transition(Running); Save follows
StartLoad(p, id) ==
  /\ Begin(p)
  /\ LET l == Load(id)
         tr == Transition(l.ctr, Running)
     IN IF l.err # "" THEN Return(p, "start", id, l.err, "", 0)
        ELSE IF l.ctr.status # Created
          THEN Return(p, "start", id, "not in created state", "", 0)
        ELSE IF ~tr.ok THEN Return(p, "start", id, "transition to running", "", 0)
        ELSE Step(p, [NewInv("start", id, FALSE) EXCEPT !.pc = "save_open", !.ctr = tr.ctr])
  /\ sig' = {}
  /\ UNCHANGED usable
  /\ UNCHANGED <<hostVars, faults, hist>>

\* ---------------------------------------------------------------------------
\* state (StateCommand.Action)
\* ---------------------------------------------------------------------------

\* Load and print the OCI state document; out is the status it shows
State(p, id) ==
  /\ Begin(p)
  /\ LET l == Load(id)
     IN IF l.err # "" THEN Return(p, "state", id, l.err, "", 0)
        ELSE Return(p, "state", id, "", MarshalState(l.ctr, procs).status, 0)
  /\ sig' = {}
  /\ UNCHANGED usable
  /\ UNCHANGED <<hostVars, faults, hist>>

\* ---------------------------------------------------------------------------
\* kill (KillCommand.Action)
\* ---------------------------------------------------------------------------

\* Load, the effective-status check, parseSignal, syscall.Kill
Kill(p, id, sigStr) ==
  /\ Begin(p)
  /\ LET l == Load(id)
         status == EffectiveStatus(l.ctr, procs)
         n == parseSignal(SignalArg(sigStr))
     IN IF l.err # ""
          THEN /\ ReturnKill(p, id, sigStr, l.err)
               /\ sig' = {}
               /\ UNCHANGED procs
        ELSE IF status # Running /\ status # Created
          THEN /\ ReturnKill(p, id, sigStr, "not running")
               /\ sig' = {}
               /\ UNCHANGED procs
        ELSE IF n = 0
          THEN /\ ReturnKill(p, id, sigStr, "unknown signal")
               /\ sig' = {}
               /\ UNCHANGED procs
        ELSE \E dies \in BOOLEAN :
               LET k == SysKill(l.ctr.pid, n, procs, dies)
               IN /\ procs' = k.procs
                  /\ sig' = k.sig
                  /\ ReturnKill(p, id, sigStr,
                                IF k.err = "" THEN ""
                                ELSE IF k.err = "ESRCH" THEN "kill VMM process: ESRCH"
                                ELSE "kill VMM process: EINVAL")
  /\ UNCHANGED <<disk, dirs, image, taps, rules, socks, nextPid, faults, usable, hist>>

\* ---------------------------------------------------------------------------
\* delete (DeleteCommand.Action)
\* ---------------------------------------------------------------------------

\* container.Delete: os.RemoveAll of the state directory.  When it fails the
\* directory stays, with its files or (some) without state.json.
\* The state files, directories, image files, record histories and the other
\* invocations afterwards.
RemoveAll(id, fail, some) ==
  IF ~fail
    THEN [err |-> "", disk |-> [disk EXCEPT ![id] = NoFile], dirs |-> dirs \ {id},
          image |-> image \ {id}, hist |-> [hist EXCEPT ![id] = ""],
          inv |-> RemoveAllInv(inv, id)]
  ELSE IF some
    THEN [err |-> "remove", disk |-> [disk EXCEPT ![id] = NoFile], dirs |-> dirs,
          image |-> image, hist |-> [hist EXCEPT ![id] = ""],
          inv |-> RemoveAllInv(inv, id)]
  ELSE [err |-> "remove", disk |-> disk, dirs |-> dirs, image |-> image, hist |-> hist,
        inv |-> inv]

\* DeleteLoad as it would be if --force were not looked at: an unloadable
\* record is an error, a live VMM is stopped
DeleteLoad_ignoresForce(p, id, force) ==
  /\ Begin(p)
  /\ LET l == Load(id)
     IN IF l.err # ""
          THEN /\ inv' = inv
               /\ last' = DeleteResult(id, force, l.err)
               /\ sig' = {}
               /\ UNCHANGED <<disk, dirs, image, hist, procs>>
        ELSE \E gone \in BOOLEAN :
               LET s == StopVM(l.ctr, procs, gone)
               IN /\ procs' = s.procs
                  /\ sig' = s.sig
                  /\ Step(p, [NewInv("delete", id, force) EXCEPT !.pc = "d_net", !.ctr = l.ctr])
                  /\ UNCHANGED <<disk, dirs, image, hist>>
  /\ UNCHANGED <<taps, rules, socks, nextPid, faults, usable>>

\* Load; with --force an unloadable record means container.Delete at once;
\* a live VMM is an error without --force and is stopped with it (a failure
\* of the stop is logged and the delete goes on)
DeleteLoad(p, id, force) ==
  /\ Begin(p)
  /\ LET l == Load(id)
     IN IF l.err # "" /\ force
          THEN \E fail \in BOOLEAN, some \in BOOLEAN :
                 LET r == RemoveAll(id, fail, some)
                 IN /\ some => fail
                    /\ IF fail THEN Fault ELSE UNCHANGED faults
                    /\ disk' = r.disk
                    /\ dirs' = r.dirs
                    /\ image' = r.image
                    /\ hist' = r.hist
                    /\ inv' = r.inv
                    /\ last' = DeleteResult(id, force, r.err)
                    /\ sig' = {}
                    /\ UNCHANGED procs
        ELSE IF l.err # ""
          THEN /\ inv' = inv
               /\ last' = DeleteResult(id, force, l.err)
               /\ sig' = {}
               /\ UNCHANGED <<disk, dirs, image, hist, procs, faults>>
        ELSE IF IsVMMAlive(l.ctr, procs) /\ ~force
          THEN /\ inv' = inv
               /\ last' = DeleteResult(id, force, "has a running VM")
               /\ sig' = {}
               /\ UNCHANGED <<disk, dirs, image, hist, procs, faults>>
        ELSE IF IsVMMAlive(l.ctr, procs)
          THEN /\ \/ \E gone \in BOOLEAN :
                       LET s == StopVM(l.ctr, procs, gone)
                       IN /\ procs' = s.procs
                          /\ sig' = s.sig
                          /\ UNCHANGED faults
                  \/ /\ Fault
                     /\ sig' = {}
                     /\ UNCHANGED procs
               /\ Step(p, [NewInv("delete", id, force) EXCEPT !.pc = "d_net", !.ctr = l.ctr])
               /\ UNCHANGED <<disk, dirs, image, hist>>
        ELSE /\ Step(p, [NewInv("delete", id, force) EXCEPT !.pc = "d_net", !.ctr = l.ctr])
             /\ sig' = {}
             /\ UNCHANGED <<disk, dirs, image, hist, procs, faults>>
  /\ UNCHANGED <<taps, rules, socks, nextPid, usable>>

\* network.Teardown; its error is logged and the delete goes on
DeleteNet(p) ==
  /\ inv[p].pc = "d_net"
  /\ \E natFail \in 0..4, tapFail \in BOOLEAN :
       LET r == Teardown(inv[p].ctr, taps, rules, natFail, tapFail)
       IN /\ Faults((IF natFail # 0 THEN 1 ELSE 0) + (IF tapFail THEN 1 ELSE 0))
          /\ taps' = r.taps
          /\ rules' = r.rules
  /\ Step(p, [inv[p] EXCEPT !.pc = "d_sock"])
  /\ sig' = {}
  /\ UNCHANGED <<started, usable>>
  /\ UNCHANGED <<disk, dirs, image, socks, procs, nextPid, hist>>

\* os.Remove of the recorded socket path, its error ignored
DeleteSock(p) ==
  /\ inv[p].pc = "d_sock"
  /\ \/ /\ socks' = IF inv[p].ctr.socketPath # <<>>
                      THEN socks \ {inv[p].ctr.socketPath} ELSE socks
        /\ UNCHANGED faults
     \/ /\ inv[p].ctr.socketPath # <<>>
        /\ Fault
        /\ UNCHANGED socks
  /\ Step(p, [inv[p] EXCEPT !.pc = "d_rm"])
  /\ sig' = {}
  /\ UNCHANGED <<started, usable>>
  /\ UNCHANGED <<disk, dirs, image, taps, rules, procs, nextPid, hist>>

\* container.Delete: os.RemoveAll of the state directory; its error is returned
DeleteRemove(p) ==
  /\ inv[p].pc = "d_rm"
  /\ \E fail \in BOOLEAN, some \in BOOLEAN :
       LET r == RemoveAll(inv[p].id, fail, some)
       IN /\ some => fail
          /\ IF fail THEN Fault ELSE UNCHANGED faults
          /\ disk' = r.disk
          /\ dirs' = r.dirs
          /\ image' = r.image
          /\ hist' = r.hist
          /\ inv' = [r.inv EXCEPT ![p] = IdleInv]
          /\ last' = DeleteResult(inv[p].id, inv[p].force,
                                  IF r.err = "" THEN "" ELSE "delete state")
  /\ sig' = {}
  /\ UNCHANGED <<started, usable>>
  /\ UNCHANGED <<taps, rules, socks, procs, nextPid>>

\* ---------------------------------------------------------------------------
\* Environment
\* ---------------------------------------------------------------------------

\* a VMM process exits: the guest rebooted, or the host killed it
VMMExit(pid) ==
  /\ pid \in procs
  /\ procs' = procs \ {pid}
  /\ sig' = {}
  /\ last' = NoResult
  /\ UNCHANGED <<disk, dirs, image, taps, rules, socks, nextPid, faults, usable, started, inv, hist>>

Next ==
  \/ \E p \in Slots, id \in Ids : CreateBegin(p, id)
  \/ \E p \in Slots : SetupAlloc(p)
  \/ \E p \in Slots : SetupNet(p)
  \/ \E p \in Slots : CreateVM(p)
  \/ \E p \in Slots : SaveOpen(p)
  \/ \E p \in Slots : SaveWrite(p)
  \/ \E p \in Slots, id \in Ids : StartLoad(p, id)
  \/ \E p \in Slots, id \in Ids : State(p, id)
  \/ \E p \in Slots, id \in Ids, sigStr \in SigArgs : Kill(p, id, sigStr)
  \/ \E p \in Slots, id \in Ids, force \in BOOLEAN : DeleteLoad(p, id, force)
  \/ \E p \in Slots : DeleteNet(p)
  \/ \E p \in Slots : DeleteSock(p)
  \/ \E p \in Slots : DeleteRemove(p)
  \/ \E pid \in 1..MaxPid : VMMExit(pid)

\* overlapping invocations, no environment failure
Spec == Init /\ [][Next]_vars

\* one invocation at a time, with environment failures
SeqSpec == InitSeq /\ [][Next]_vars

\* ---------------------------------------------------------------------------
\* EffectiveStatus on its own: every stored status, pids around zero, every
\* set of live processes
\* ---------------------------------------------------------------------------

InitPure ==
  /\ disk = [i \in Ids |-> NoFile]
  /\ dirs = {}
  /\ image = {}
  /\ taps = [n \in {} |-> {}]
  /\ rules = EmptyBag
  /\ socks = {}
  /\ nextPid = 1
  /\ sig = {}
  /\ started = 0
  /\ last = NoResult
  /\ hist = [i \in Ids |-> ""]
  /\ usable = {}
  /\ faults = 0
  /\ procs \in SUBSET (1..MaxPid)
  /\ \E st \in {Creating, Created, Running, Stopped}, n \in (0 - 1)..MaxPid :
       inv = [p \in Slots |->
                IF p = FirstSlot
                  THEN [IdleInv EXCEPT !.pc = "probe",
                                       !.ctr = [ZeroCtr EXCEPT !.status = st, !.pid = n]]
                  ELSE IdleInv]

\* c.EffectiveStatus() is called on the record held in slot p
ApplyEffectiveStatus(p) ==
  /\ inv[p].pc = "probe"
  /\ inv' = [inv EXCEPT ![p].pc = "probed"]
  /\ last' = [NoResult EXCEPT !.out = EffectiveStatus(inv[p].ctr, procs)]
  /\ UNCHANGED <<hostVars, sig, faults, usable, started, hist>>

NextPure == \E p \in Slots : ApplyEffectiveStatus(p)

PureSpec == InitPure /\ [][NextPure]_vars

\* ---------------------------------------------------------------------------
\* network.Setup and the rest of create for every candidate subnet: the
\* allocator has handed out candidate i, the lower ones being in use
\* ---------------------------------------------------------------------------

\* the number of /30 candidates AllocateSubnet goes through
MaxCandidates == 16384

InitSubnet ==
  /\ disk = [i \in Ids |-> NoFile]
  /\ taps = [n \in {} |-> {}]
  /\ rules = EmptyBag
  /\ socks = {}
  /\ procs = {}
  /\ nextPid = 1
  /\ sig = {}
  /\ started = 1
  /\ last = NoResult
  /\ hist = [i \in Ids |-> ""]
  /\ usable = {}
  /\ faults = 0
  /\ \E id \in Ids, i \in 0..(MaxCandidates - 1) :
       /\ id = CHOOSE x \in Ids : TRUE
       /\ dirs = {id}
       /\ image = {id}
       /\ inv = [p \in Slots |->
                   IF p = FirstSlot
                     THEN [NewInv("create", id, FALSE) EXCEPT
                             !.pc = "c_net",
                             !.sub = SubnetOf(i),
                             !.ctr = [ZeroCtr EXCEPT !.id = id, !.bundle = Bundle,
                                                     !.status = Creating, !.rootDir = RootDir,
                                                     !.imagePath = ImagePathOf(RootDir, id)]]
                     ELSE IdleInv]

NextSubnet ==
  \/ \E p \in Slots : SetupNet(p)
  \/ \E p \in Slots : CreateVM(p)
  \/ \E p \in Slots : SaveOpen(p)
  \/ \E p \in Slots : SaveWrite(p)

SubnetSpec == InitSubnet /\ [][NextSubnet]_vars

\* ---------------------------------------------------------------------------
\* Properties
\* ---------------------------------------------------------------------------

\* everything on the host that belongs to containers
hostState == <<disk, dirs, image, taps, rules, socks, procs>>

\* the record stored for id, when state.json holds one
IsStored(id) == disk[id].kind = "json"
Stored(id) == Unmarshal(disk[id].data)

\* this step starts the invocation `verb id` in slot p
Begins(p, verb, id) ==
  /\ inv[p].pc = "idle"
  /\ started' = started + 1
  /\ \/ inv'[p].verb = verb /\ inv'[p].id = id
     \/ inv' = inv /\ last'.verb = verb /\ last'.id = id

\* C1: a create invoked while state.json of its id exists returns "already
\* exists" in that very step, goes no further, and changes no record, image,
\* TAP, rule, socket or process.
C1_CreateExistingFails ==
  [][\A p \in Slots, id \in Ids :
       (Begins(p, "create", id) /\ disk[id].kind # "none")
       => /\ inv'[p] = IdleInv
          /\ last' = [NoResult EXCEPT !.verb = "create", !.id = id,
                                       !.err = "already exists"]
          /\ hostState' = hostState
          /\ sig' = {}]_vars

\* C1 happens: a create has just been refused while the record of a container
\* with a live VMM is on disk
C1_Witness ==
  /\ last.verb = "create"
  /\ last.err = "already exists"
  /\ IsStored(last.id)
  /\ Stored(last.id).pid \in procs

\* C2: of two create invocations for the same id, one is refused at the
\* existence check: never are two of them past the check (building the image,
\* setting up the network, launching a VMM) at the same time.
C2_CreatesSerialized ==
  \A p, q \in Slots :
    (p # q /\ inv[p].verb = "create" /\ inv[q].verb = "create") => inv[p].id # inv[q].id

\* a /30 network inside 10.0.0.0/16, written "10.0.x.y/30"
IsPoolSubnet(s) ==
  /\ Len(s) = 5
  /\ s[1] = 10 /\ s[2] = 0 /\ s[3] \in 0..255 /\ s[4] \in 0..255
  /\ s[4] % 4 = 0
  /\ s[5] = 30

\* C3: the subnetCIDRs of the records that exist at the same time are pairwise
\* distinct, and each is a /30 inside 10.0.0.0/16.
C3_SubnetsDistinct ==
  \A a, b \in Ids :
    (IsStored(a) /\ IsStored(b) /\ Stored(a).subnetCIDR # <<>> /\ Stored(b).subnetCIDR # <<>>)
    => /\ IsPoolSubnet(Stored(a).subnetCIDR)
       /\ a # b => Stored(a).subnetCIDR # Stored(b).subnetCIDR

\* the candidates whose /30 holds an address attached to a link named df-*
LiveTapCandidates ==
  {i \in 0..(NumSubnets - 1) :
     \E n \in DOMAIN taps :
       /\ HasPrefix(n, DfPrefix)
       /\ \E a \in taps[n] :
            /\ a[5] = 30
            /\ <<a[1], a[2], a[3]>> = <<10, 0, (4 * i) \div 256>>
            /\ a[4] \div 4 = ((4 * i) % 256) \div 4}

\* the candidates recorded as subnetCIDR in a stored record
RecordedCandidates ==
  {i \in 0..(NumSubnets - 1) :
     \E id \in Ids : IsStored(id) /\ Stored(id).subnetCIDR = <<10, 0, (4 * i) \div 256, (4 * i) % 256, 30>>}

\* this step is an AllocateSubnet of slot p that hands out a subnet
Allocates(p) == inv[p].pc = "c_alloc" /\ inv'[p].pc = "c_net"

LowestFree(excluded) ==
  CHOOSE i \in 0..(NumSubnets - 1) \ excluded :
    \A j \in 0..(NumSubnets - 1) \ excluded : i <= j

\* the subnet AllocateSubnet hands out is the lowest candidate that is neither
\* recorded nor on a df-* link
HandsOutLowestFree(p) ==
  LET excluded == LiveTapCandidates \cup RecordedCandidates
  IN /\ excluded # 0..(NumSubnets - 1)
     /\ inv'[p].sub.CIDR = CandidateCIDR(LowestFree(excluded))
     /\ \A i \in LiveTapCandidates : inv'[p].sub.CIDR # CandidateCIDR(i)

FailedAfterImage ==
  /\ last.verb = "create"
  /\ last.err \in {"setup networking: allocate subnet", "setup networking: create TAP",
                   "setup networking: setup NAT", "start VM", "transition to created",
                   "save state", "write pid file"}

\* ... from a stage at which it had also created its TAP device
FailedAfterTAP ==
  /\ last.verb = "create"
  /\ last.err \in {"start VM", "transition to created", "save state", "write pid file"}

\* C5: when a create returns a failure from a stage after it acquired
\* resources, the image file is gone, the TAP device it created is gone, and
\* no record with status created is stored for the id.
C5_FailedCreateRolledBack ==
  /\ FailedAfterImage =>
       /\ last.id \notin image
       /\ ~(IsStored(last.id) /\ Stored(last.id).status = Created)
  /\ FailedAfterTAP => TAPName(last.id) \notin DOMAIN taps

\* C6: an invocation that loads state.json of id while a Save of that record is
\* between its open and its write never finds a file it cannot unmarshal.
C6_ReadersSeeWholeFile ==
  [][\A id \in Ids :
       (/\ last'.verb \in {"state", "start", "delete"}
        /\ last'.id = id
        /\ \E q \in Slots : inv[q].pc = "save_write" /\ inv[q].ctr.id = id)
       => last'.err # "unmarshal state"]_vars

\* C7: a state invocation, run while nothing else runs, that loads a record
\* written by a successful create (status created, or running after start)
\* whose VMM process is no longer alive reports stopped.
C7_StateReportsStopped ==
  [][\A id \in Ids :
       (/\ last'.verb = "state" /\ last'.id = id /\ last'.err = ""
        /\ \A q \in Slots : inv[q].pc = "idle"
        /\ IsStored(id)
        /\ Stored(id).status \in {Created, Running}
        /\ Stored(id).pid \notin procs)
       => last'.out = Stopped]_vars

\* C8: EffectiveStatus returns stopped when the stored status is running and
\* the probe fails (pid <= 0, or no live process has the pid), the stored status
\* in every other case, and leaves the record and the state file as they were.
C8_EffectiveStatus ==
  [][\A p \in Slots :
       (inv[p].pc = "probe" /\ inv'[p].pc = "probed")
       => LET c == inv[p].ctr
              dead == c.pid <= 0 \/ c.pid \notin procs
          IN /\ last'.out = IF c.status = Running /\ dead THEN Stopped ELSE c.status
             /\ (last'.out = Stopped /\ c.status # Stopped) <=> (c.status = Running /\ dead)
             /\ inv'[p].ctr = c
             /\ disk' = disk]_vars

\* C8 happens: EffectiveStatus was applied to a running record whose pid is
\* positive and belongs to no live process, and returned stopped
C8_Witness ==
  \E p \in Slots :
    /\ inv[p].pc = "probed"
    /\ inv[p].ctr.status = Running
    /\ inv[p].ctr.pid > 0
    /\ inv[p].ctr.pid \notin procs
    /\ procs # {}
    /\ last.out = Stopped

\* the place of a status in creating -> created -> running -> stopped
Rank(st) ==
  IF st = Creating THEN 0 ELSE IF st = Created THEN 1 ELSE IF st = Running THEN 2 ELSE 3

\* C9: the status written to the state file of a record is never earlier in
\* creating -> created -> running -> stopped than the one written before it.
C9_StatusMonotonic ==
  [][\A id \in Ids :
       (hist[id] # "" /\ hist'[id] # "") => Rank(hist'[id]) >= Rank(hist[id])]_vars

\* this step belongs to the start invocation running in slot p
StartSteps(p) == inv[p].verb = "start" /\ inv'[p].pc # inv[p].pc

\* C10: a start goes on to Save only when the record it loads has status
\* created, and then with that record changed in its status alone; otherwise it
\* fails on the spot.  No step of a start launches, signals or reaps a process
\* or touches an image, link, rule or socket; what it writes to the state file is
\* the loaded record with status running; a start that fails at its load
\* changes nothing.
C10_StartFrame ==
  [][/\ \A p \in Slots, id \in Ids :
          Begins(p, "start", id) =>
            /\ hostState' = hostState /\ sig' = {} /\ nextPid' = nextPid
            /\ IF IsStored(id) /\ Stored(id).status = Created
                 THEN /\ inv'[p].pc = "save_open"
                      /\ inv'[p].ctr = [Stored(id) EXCEPT !.status = Running]
                      /\ last' = NoResult
                 ELSE /\ inv'[p] = IdleInv
                      /\ last'.verb = "start" /\ last'.err # ""
     /\ \A p \in Slots :
          StartSteps(p) =>
            /\ <<image, taps, rules, socks, procs, nextPid>>' = <<image, taps, rules, socks, procs, nextPid>>
            /\ sig' = {}
            /\ inv[p].ctr.status = Running
            /\ \A id \in Ids : disk'[id] # disk[id] =>
                 /\ id = inv[p].ctr.id
                 /\ disk'[id] \in {Truncated, JsonFile(inv[p].ctr)}
            /\ (last'.verb = "start" /\ last'.err = "" /\ inv[p].fd = "open")
                 => disk'[inv[p].ctr.id] = JsonFile(inv[p].ctr)]_vars

\* C10 happens: a start has just succeeded on a container whose VMM is alive,
\* and the record now says running
C10_Witness ==
  /\ last.verb = "start"
  /\ last.err = ""
  /\ IsStored(last.id)
  /\ Stored(last.id).status = Running
  /\ Stored(last.id).pid \in procs

\* the signal number the arguments tried stand for: SIGTERM when none is
\* given, SIGKILL for "SIGKILL", SIGUSR1 for "usr1"; 0 for the others, which
\* name no signal ("FOO", "0") or are no signal number ("99")
ExpectedSignal(sigStr) ==
  IF sigStr = <<>> THEN 15
  ELSE IF sigStr = <<83, 73, 71, 75, 73, 76, 76>> THEN 9
  ELSE IF sigStr = <<117, 115, 114, 49>> THEN 10
  ELSE 0

\* C11: kill delivers the signal asked for (SIGTERM by default) to the
\* recorded pid when the effective status is created or running, the signal is
\* known and the process is there; in every other case it returns an error and
\* delivers nothing.  It never changes a state file or any other resource.
C11_KillGuarded ==
  [][\A p \in Slots, id \in Ids :
       Begins(p, "kill", id) =>
         /\ inv' = inv
         /\ <<disk, dirs, image, taps, rules, socks, nextPid>>'
              = <<disk, dirs, image, taps, rules, socks, nextPid>>
         /\ IF /\ IsStored(id)
               /\ EffectiveStatus(Stored(id), procs) \in {Created, Running}
               /\ ExpectedSignal(last'.sigStr) # 0
               /\ Stored(id).pid \in procs
              THEN /\ last'.err = ""
                   /\ sig' = {<<Stored(id).pid, ExpectedSignal(last'.sigStr)>>}
                   /\ procs' \in {procs, procs \ {Stored(id).pid}}
              ELSE /\ last'.err # ""
                   /\ sig' = {}
                   /\ procs' = procs]_vars

\* C11 happens: a kill without a signal argument has just delivered SIGTERM to
\* the VMM of a container that was created and not started
C11_Witness ==
  /\ last.verb = "kill"
  /\ last.err = ""
  /\ last.sigStr = <<>>
  /\ IsStored(last.id)
  /\ Stored(last.id).status = Created
  /\ sig = {<<Stored(last.id).pid, 15>>}

\* C12: a kill with a known signal on a record (stored status created or
\* running) whose VMM process is gone returns the error of the signal delivery.
C12_KillReturnsSignalError ==
  [][\A p \in Slots, id \in Ids :
       (/\ Begins(p, "kill", id)
        /\ IsStored(id)
        /\ Stored(id).status \in {Created, Running}
        /\ Stored(id).pid \notin procs
        /\ ExpectedSignal(last'.sigStr) # 0)
       => last'.err = "kill VMM process: ESRCH"]_vars

\* this step starts the invocation `delete id`, with --force or without
BeginsDelete(p, id, force) ==
  /\ inv[p].pc = "idle"
  /\ started' = started + 1
  /\ \/ inv'[p].verb = "delete" /\ inv'[p].id = id /\ inv'[p].force = force
     \/ /\ \A q \in Slots : inv'[q].pc = inv[q].pc
        /\ last'.verb = "delete" /\ last'.id = id /\ last'.force = force

\* C13: a delete without --force on a record whose VMM process is alive
\* returns an error at once, delivers no signal and leaves every state file,
\* directory, image, link, rule, socket and process as it was.
C13_DeleteNeedsForce ==
  [][\A p \in Slots, id \in Ids :
       (/\ BeginsDelete(p, id, FALSE)
        /\ IsStored(id)
        /\ Stored(id).pid > 0
        /\ Stored(id).pid \in procs)
       => /\ inv'[p] = IdleInv
          /\ last'.err = "has a running VM"
          /\ hostState' = hostState
          /\ sig' = {}]_vars

\* C13 happens: a delete without --force has just been refused; the VMM, the
\* TAP link, the socket and the state directory are there
C13_Witness ==
  /\ last.verb = "delete"
  /\ ~last.force
  /\ last.err = "has a running VM"
  /\ IsStored(last.id)
  /\ Stored(last.id).pid \in procs
  /\ TAPName(last.id) \in DOMAIN taps
  /\ SocketPathOf(last.id) \in socks
  /\ last.id \in dirs

\* the steps of a delete come in the order stop, network teardown, socket
\* removal, state-directory removal, each touching its own resources only
DeleteInOrder(p) ==
  /\ (inv[p].pc = "idle" /\ inv'[p].verb = "delete") =>
       /\ inv'[p].pc = "d_net"
       /\ <<disk, dirs, image, taps, rules, socks>>' = <<disk, dirs, image, taps, rules, socks>>
       /\ procs' # procs => (inv'[p].force /\ procs' = procs \ {inv'[p].ctr.pid})
  /\ (inv[p].pc = "d_net" /\ inv'[p].pc # "d_net") =>
       /\ inv'[p].pc = "d_sock"
       /\ <<disk, dirs, image, socks, procs>>' = <<disk, dirs, image, socks, procs>>
  /\ (inv[p].pc = "d_sock" /\ inv'[p].pc # "d_sock") =>
       /\ inv'[p].pc = "d_rm"
       /\ <<disk, dirs, image, taps, rules, procs>>' = <<disk, dirs, image, taps, rules, procs>>
  /\ (inv[p].pc = "d_rm" /\ inv'[p].pc # "d_rm") =>
       /\ inv'[p].pc = "idle"
       /\ last'.verb = "delete"
       /\ <<taps, rules, socks, procs>>' = <<taps, rules, socks, procs>>

\* this step is the successful return of the delete in slot p
DeleteSucceeds(p) ==
  /\ inv[p].pc = "d_rm"
  /\ inv'[p].pc = "idle"
  /\ last'.err = ""

DeleteAgain(p, id, force) ==
  /\ last.verb = "delete"
  /\ last.err = ""
  /\ last.id = id
  /\ BeginsDelete(p, id, force)

\* no rule names the TAP link of id, and no rule names a subnet that no
\* stored record holds
NoRuleLeft(id) ==
  \A r \in BagToSet(rules) :
    /\ r.inIf # TAPName(id)
    /\ r.outIf # TAPName(id)
    /\ r.src # <<>> => \E i \in Ids : IsStored(i) /\ Stored(i).subnetCIDR = r.src

C16_ForceDeleteCleansById ==
  [][\A p \in Slots, id \in Ids :
       (BeginsDelete(p, id, TRUE) /\ disk[id].kind = "partial" /\ faults' = faults)
       => /\ last'.err = ""
          /\ disk'[id] = NoFile
          /\ id \notin dirs'
          /\ TAPName(id) \notin DOMAIN taps'
          /\ SocketPathOf(id) \notin socks']_vars

\* this step starts an invocation on id that is not a create and not a
\* delete --force
BeginsPlain(p, id) ==
  \/ Begins(p, "start", id)
  \/ Begins(p, "state", id)
  \/ Begins(p, "kill", id)
  \/ BeginsDelete(p, id, FALSE)

\* C17: start, state, kill and delete without --force on an id whose state
\* file does not unmarshal fail at once with the unmarshal error and change
\* nothing; no signal is delivered.
C17_CorruptStateIsFatal ==
  [][\A p \in Slots, id \in Ids :
       (BeginsPlain(p, id) /\ disk[id].kind = "partial")
       => /\ inv'[p] = IdleInv
          /\ last'.err = "unmarshal state"
          /\ <<hostState, nextPid>>' = <<hostState, nextPid>>
          /\ sig' = {}]_vars

\* C17 happens: a kill has just failed on a state file that a failed Save left
\* truncated, with the VMM behind it alive
C17_Witness ==
  /\ last.verb = "kill"
  /\ last.err = "unmarshal state"
  /\ disk[last.id].kind = "partial"
  /\ procs # {}

\* this step is network.Setup returning the failure of SetupNAT
SetupNATFails(p) ==
  /\ inv[p].pc = "c_net"
  /\ last'.verb = "create"
  /\ last'.err = "setup networking: setup NAT"

RuleKept(c) ==
  \E i \in 1..3 :
    LET r == NatRules(c.tapDevice, c.subnetCIDR, OutIface)[i]
    IN CopiesIn(r, rules) > 0 /\ CopiesIn(r, rules') = CopiesIn(r, rules)

\* C19: no failure inside a delete that proceeds ends it before the removal of
\* the state directory: after a failed stop it goes on to the teardown, after
\* the teardown, whatever failed in it, to the socket, then to the directory;
\* and when the removal of a rule is all that failed in the teardown, the TAP
\* link is deleted all the same.
C19_TeardownNeverPropagates ==
  [][\A p \in Slots :
       /\ (inv[p].pc = "idle" /\ inv'[p].verb = "delete") => inv'[p].pc = "d_net"
       /\ (inv[p].pc = "d_net" /\ inv'[p] # inv[p]) =>
            /\ inv'[p].pc = "d_sock"
            /\ last' = NoResult
            /\ (faults' = faults - 1 /\ RuleKept(inv[p].ctr)) =>
                 inv[p].ctr.tapDevice \notin DOMAIN taps'
       /\ (inv[p].pc = "d_sock" /\ inv'[p] # inv[p]) =>
            /\ inv'[p].pc = "d_rm"
            /\ last' = NoResult
       /\ (inv[p].pc = "d_rm" /\ inv'[p] # inv[p] /\ faults' = faults) =>
            /\ last'.err = ""
            /\ disk'[inv[p].id] = NoFile
            /\ inv[p].id \notin dirs']_vars

\* C19 happens: a delete has just returned success although a rule removal
\* failed in its teardown: a rule is left, the TAP link and the state
\* directory are gone
C19_Witness ==
  /\ last.verb = "delete"
  /\ last.err = ""
  /\ rules # EmptyBag
  /\ DOMAIN taps = {}
  /\ last.id \notin dirs
  /\ nextPid > 1

\* C20: every stored record with a tapDevice has hostIP, guestIP and
\* subnetCIDR set; subnetCIDR is a /30 network address inside 10.0.0.0/16,
\* hostIP is that address + 1 and guestIP that address + 2, in the last octet
\* and without leaving the four addresses of the subnet.
C20_RecordAddresses ==
  \A id \in Ids :
    (IsStored(id) /\ Stored(id).tapDevice # <<>>) =>
      LET c == Stored(id)
          n == c.subnetCIDR
      IN /\ c.hostIP # <<>> /\ c.guestIP # <<>> /\ n # <<>>
         /\ IsPoolSubnet(n)
         /\ c.hostIP = <<n[1], n[2], n[3], n[4] + 1>>
         /\ c.guestIP = <<n[1], n[2], n[3], n[4] + 2>>
         /\ n[4] + 2 <= 255
         /\ (n[4] + 1) \div 4 = n[4] \div 4
         /\ (n[4] + 2) \div 4 = n[4] \div 4

\* C20 happens: the record of a container that received the last candidate,
\* 10.0.255.252/30, is stored
C20_Witness ==
  \E id \in Ids :
    /\ IsStored(id)
    /\ Stored(id).tapDevice = TAPName(id)
    /\ Stored(id).subnetCIDR = <<10, 0, 255, 252, 30>>
    /\ Stored(id).guestIP = <<10, 0, 255, 254>>

\* ---------------------------------------------------------------------------
\* Containers whose ids share their first SockIdLen bytes: the verbs one after
\* the other, as in SeqSpec, on two such ids
\* ---------------------------------------------------------------------------

\* SockIdLen times the letter a
PadId == [i \in 1..SockIdLen |-> 97]

\* two ids that differ in their last byte only
LongIds == {PadId \o <<49>>, PadId \o <<50>>}

InitLong ==
  /\ disk = [i \in LongIds |-> NoFile]
  /\ dirs = {}
  /\ image = {}
  /\ taps = [n \in {} |-> {}]
  /\ rules = EmptyBag
  /\ socks = {}
  /\ procs = {}
  /\ nextPid = 1
  /\ sig = {}
  /\ started = 0
  /\ inv = [p \in Slots |-> IdleInv]
  /\ last = NoResult
  /\ hist = [i \in LongIds |-> ""]
  /\ usable = {FirstSlot}
  /\ faults = MaxFaults

NextLong ==
  \/ \E p \in Slots, id \in LongIds : CreateBegin(p, id)
  \/ \E p \in Slots : SetupAlloc(p)
  \/ \E p \in Slots : SetupNet(p)
  \/ \E p \in Slots : CreateVM(p)
  \/ \E p \in Slots : SaveOpen(p)
  \/ \E p \in Slots : SaveWrite(p)
  \/ \E p \in Slots, id \in LongIds : StartLoad(p, id)
  \/ \E p \in Slots, id \in LongIds : State(p, id)
  \/ \E p \in Slots, id \in LongIds, sigStr \in SigArgs : Kill(p, id, sigStr)
  \/ \E p \in Slots, id \in LongIds, force \in BOOLEAN : DeleteLoad(p, id, force)
  \/ \E p \in Slots : DeleteNet(p)
  \/ \E p \in Slots : DeleteSock(p)
  \/ \E p \in Slots : DeleteRemove(p)
  \/ \E pid \in 1..MaxPid : VMMExit(pid)

LongSpec == InitLong /\ [][NextLong]_vars


\* the link and the control socket recorded for container o are left as they are
DevicesKept(o) ==
  LET c == Stored(o)
  IN /\ (c.tapDevice # <<>> /\ c.tapDevice \in DOMAIN taps) =>
          c.tapDevice \in DOMAIN taps' /\ taps'[c.tapDevice] = taps[c.tapDevice]
     /\ (c.socketPath # <<>> /\ c.socketPath \in socks) => c.socketPath \in socks'

\* C21: the TAP name and the socket path of two distinct ids differ, so a step
\* of a create or delete of one container leaves the TAP device and the control
\* socket recorded for every other container as they are.
C21_DevicesPerContainer ==
  [][\A p \in Slots :
       (inv[p].verb \in {"create", "delete"} /\ inv[p].pc # "idle") =>
         \A o \in LongIds \ {inv[p].id} :
           /\ TAPName(o) # TAPName(inv[p].id)
           /\ SocketPathOf(o) # SocketPathOf(inv[p].id)
           /\ IsStored(o) => DevicesKept(o)]_vars

\* a create for id is past its existence check in slot q and has not returned
CreateAtWork(q, id) ==
  inv[q].verb = "create" /\ inv[q].id = id /\ inv[q].pc \in {"c_alloc", "c_net", "c_vm"}

\* C22: a create that is building the image, setting up the network or
\* launching the VMM has a record of its id on disk, and a create for the same
\* id that starts meanwhile is refused with "already exists".
C22_IdClaimedBeforeWork ==
  [][\A q \in Slots, id \in Ids :
       /\ CreateAtWork(q, id)' => Exists(id)'
       /\ CreateAtWork(q, id) =>
            \A p \in Slots \ {q} :
              Begins(p, "create", id) => (inv'[p] = IdleInv /\ last'.err = "already exists")]_vars

\* ---------------------------------------------------------------------------
\* int64 arithmetic.  An int64 is its two's-complement bit pattern, four limbs
\* of 16 bits, least significant first; a natural number of any size is a
\* sequence of such limbs.
\* ---------------------------------------------------------------------------

Limb == 65536
Limbs64 == 4

\* the int64 of a small natural number
I64(n) == <<n % Limb, n \div Limb, 0, 0>>

IsNeg64(x) == x[Limbs64] >= Limb \div 2

RECURSIVE MulLimbs(_, _, _)
\* the limbs of x * m + carry, one limb longer than x where the product needs it
MulLimbs(x, m, carry) ==
  IF x = <<>> THEN (IF carry = 0 THEN <<>> ELSE <<carry>>)
  ELSE LET v == x[1] * m + carry
       IN <<v % Limb>> \o MulLimbs(SubSeq(x, 2, Len(x)), m, v \div Limb)

RECURSIVE AddLimbs(_, _, _)
\* the limbs of x + y + carry, for x and y of the same length; the carry out is dropped
AddLimbs(x, y, carry) ==
  IF x = <<>> THEN <<>>
  ELSE LET v == x[1] + y[1] + carry
       IN <<v % Limb>> \o AddLimbs(SubSeq(x, 2, Len(x)), SubSeq(y, 2, Len(y)), v \div Limb)

\* the low 64 bits of a natural number
Wrap64(x) == [i \in 1..Limbs64 |-> IF i <= Len(x) THEN x[i] ELSE 0]

\* int64 multiplication by a small constant, wrapping as Go does
Mul64(x, m) == Wrap64(MulLimbs(x, m, 0))

\* int64 addition, wrapping
Add64(x, y) == AddLimbs(x, y, 0)

\* int64 negation
Neg64(x) == AddLimbs([i \in 1..Limbs64 |-> Limb - 1 - x[i]], I64(0), 1)

RECURSIVE LessLimbs(_, _)
\* x < y for naturals of the same length
LessLimbs(x, y) ==
  IF x = <<>> THEN FALSE
  ELSE IF x[Len(x)] # y[Len(y)] THEN x[Len(x)] < y[Len(y)]
  ELSE LessLimbs(SubSeq(x, 1, Len(x) - 1), SubSeq(y, 1, Len(y) - 1))

\* x < y on int64
Less64(x, y) ==
  IF IsNeg64(x) # IsNeg64(y) THEN IsNeg64(x) ELSE LessLimbs(x, y)

RECURSIVE DivLimbs(_, _, _)
\* the limbs of x div d for a natural x, most significant limb first, rem carried in
DivLimbs(x, d, rem) ==
  IF x = <<>> THEN <<>>
  ELSE LET v == rem * Limb + x[Len(x)]
       IN DivLimbs(SubSeq(x, 1, Len(x) - 1), d, v % d) \o <<v \div d>>

\* x / d on int64, d a small positive constant: Go truncates toward zero
Div64(x, d) ==
  IF IsNeg64(x) THEN Neg64(DivLimbs(Neg64(x), d, 0)) ELSE DivLimbs(x, d, 0)

RECURSIVE DigitsLimbs(_, _)
\* the natural number written by the decimal digits s, continuing from acc
DigitsLimbs(s, acc) ==
  IF s = <<>> THEN acc
  ELSE DigitsLimbs(SubSeq(s, 2, Len(s)), MulLimbs(acc, 10, s[1] - 48))

\* a natural number without its leading zero limbs
RECURSIVE Normal(_)
Normal(x) == IF x # <<>> /\ x[Len(x)] = 0 THEN Normal(SubSeq(x, 1, Len(x) - 1)) ELSE x

\* 2^63 as a natural number
MinInt64Magnitude == <<0, 0, 0, Limb \div 2>>

\* strconv.ParseInt(s, 10, 64): an optional sign and at least one digit,
\* nothing else (syntax error otherwise); a value outside int64 is a range error
ParseInt(s) ==
  LET signed == s # <<>> /\ s[1] \in {43, 45}
      neg == signed /\ s[1] = 45
      digits == IF signed THEN SubSeq(s, 2, Len(s)) ELSE s
      mag == Normal(DigitsLimbs(digits, <<>>))
      fits == \/ Len(mag) < Limbs64
              \/ Len(mag) = Limbs64 /\ mag[Limbs64] < Limb \div 2
              \/ neg /\ mag = MinInt64Magnitude
  IN IF digits = <<>> \/ \E i \in 1..Len(digits) : digits[i] \notin 48..57
       THEN [ok |-> FALSE, n |-> I64(0)]
     ELSE IF ~fits THEN [ok |-> FALSE, n |-> I64(0)]
     ELSE [ok |-> TRUE, n |-> IF neg THEN Neg64(Wrap64(mag)) ELSE Wrap64(mag)]

\* ---------------------------------------------------------------------------
\* Sizes (rootfs.parseSize, vm.parseMemSize)
\* ---------------------------------------------------------------------------

\* ASCII white space
Space == {9, 10, 11, 12, 13, 32}

RECURSIVE TrimLeft(_)
TrimLeft(s) == IF s # <<>> /\ s[1] \in Space THEN TrimLeft(SubSeq(s, 2, Len(s))) ELSE s

RECURSIVE TrimRight(_)
TrimRight(s) == IF s # <<>> /\ s[Len(s)] \in Space THEN TrimRight(SubSeq(s, 1, Len(s) - 1)) ELSE s

\* strings.TrimSpace
TrimSpace(s) == TrimRight(TrimLeft(s))

\* rootfs.parseSize: bytes from "{n}", "{n}M" or "{n}G"
parseSize(str) ==
  LET s == TrimSpace(str)
      suffix == ToUpper(SubSeq(s, Len(s), Len(s)))
      head == ParseInt(SubSeq(s, 1, Len(s) - 1))
      whole == ParseInt(s)
  IN IF s = <<>> THEN [ok |-> FALSE, n |-> I64(0)]
     ELSE IF suffix = <<71>>
       THEN (IF ~head.ok THEN [ok |-> FALSE, n |-> I64(0)]
             ELSE [ok |-> TRUE, n |-> Mul64(Mul64(Mul64(head.n, 1024), 1024), 1024)])
     ELSE IF suffix = <<77>>
       THEN (IF ~head.ok THEN [ok |-> FALSE, n |-> I64(0)]
             ELSE [ok |-> TRUE, n |-> Mul64(Mul64(head.n, 1024), 1024)])
     ELSE (IF ~whole.ok THEN [ok |-> FALSE, n |-> I64(0)] ELSE [ok |-> TRUE, n |-> whole.n])

\* vm.parseMemSize: MiB from "{n}", "{n}M" or "{n}G", n > 0
parseMemSize(str) ==
  LET s == TrimSpace(str)
      suffix == ToUpper(SubSeq(s, Len(s), Len(s)))
      head == ParseInt(SubSeq(s, 1, Len(s) - 1))
      whole == ParseInt(s)
      bad(r) == ~r.ok \/ IsNeg64(r.n) \/ r.n = I64(0)
  IN IF s = <<>> THEN [ok |-> FALSE, n |-> I64(0)]
     ELSE IF suffix = <<71>>
       THEN (IF bad(head) THEN [ok |-> FALSE, n |-> I64(0)]
             ELSE [ok |-> TRUE, n |-> Mul64(head.n, 1024)])
     ELSE IF suffix = <<77>>
       THEN (IF bad(head) THEN [ok |-> FALSE, n |-> I64(0)] ELSE [ok |-> TRUE, n |-> head.n])
     ELSE (IF bad(whole) THEN [ok |-> FALSE, n |-> I64(0)] ELSE [ok |-> TRUE, n |-> whole.n])

\* an annotation that is not in spec.Annotations
NoAnnotation == [ok |-> FALSE, v |-> <<>>]
\* the annotation with value v
Annotation(v) == [ok |-> TRUE, v |-> v]

DefaultVCPUs == I64(1)
DefaultMemMB == I64(128)
\* int64(1024 * 1024 * 1024)
DefaultMinSize == Mul64(Mul64(I64(1024), 1024), 1024)

\* vm.vcpuCount: annot is the lookup of "dock-fire/vcpus", env the value of
\* DOCK_FIRE_VCPUS ("" when unset)
vcpuCount(annot, env) ==
  LET a == ParseInt(annot.v)
      e == ParseInt(env)
      pos(r) == r.ok /\ ~IsNeg64(r.n) /\ r.n # I64(0)
  IN IF annot.ok /\ pos(a) THEN a.n
     ELSE IF env # <<>> /\ pos(e) THEN e.n
     ELSE DefaultVCPUs

\* vm.memSizeMB: annot is the lookup of "dock-fire/memory", env the value of
\* DOCK_FIRE_MEMORY
memSizeMB(annot, env) ==
  IF annot.ok /\ parseMemSize(annot.v).ok THEN parseMemSize(annot.v).n
  ELSE IF env # <<>> /\ parseMemSize(env).ok THEN parseMemSize(env).n
  ELSE DefaultMemMB

\* rootfs.CreateImage, the minimum disk size: the default, overwritten by
\* DOCK_FIRE_DISK_SIZE when it parses, overwritten by the annotation
\* "dock-fire/disk-size" when it parses
minSize(annot, env) ==
  LET m1 == IF env # <<>> /\ parseSize(env).ok THEN parseSize(env).n ELSE DefaultMinSize
  IN IF annot.ok /\ parseSize(annot.v).ok THEN parseSize(annot.v).n ELSE m1

\* rootfs.CreateImage, the size the image file is truncated to
imageSize(rootfsSize, annot, env) ==
  LET padded == Add64(rootfsSize, Div64(rootfsSize, 5))
  IN IF Less64(padded, minSize(annot, env)) THEN minSize(annot, env) ELSE padded

\* ---------------------------------------------------------------------------
\* Resource sizing on its own: every combination of an annotation, an
\* environment value and a rootfs size
\* ---------------------------------------------------------------------------

\* the values tried: "", "2", "4G", "512M", "x", "0", "-1G", "8589934592G", " 3 ", "2g"
SizingArgs ==
  { <<>>, <<50>>, <<52, 71>>, <<53, 49, 50, 77>>, <<120>>, <<48>>, <<45, 49, 71>>,
    <<56, 53, 56, 57, 57, 51, 52, 53, 57, 50, 71>>, <<32, 51, 32>>, <<50, 103>> }

\* the rootfs sizes tried: 0, 1000 bytes, 1 GiB, 5 GiB
RootfsSizes == {I64(0), I64(1000), DefaultMinSize, Mul64(DefaultMinSize, 5)}

\* the host of InitHost with only the library call c pending in the first slot
InitCall(c) ==
  /\ disk = [i \in Ids |-> NoFile]
  /\ dirs = {}
  /\ image = {}
  /\ taps = [n \in {} |-> {}]
  /\ rules = EmptyBag
  /\ socks = {}
  /\ procs = {}
  /\ nextPid = 1
  /\ sig = {}
  /\ started = 0
  /\ last = NoResult
  /\ hist = [i \in Ids |-> ""]
  /\ usable = {}
  /\ faults = 0
  /\ inv = [p \in Slots |-> IF p = FirstSlot THEN c ELSE IdleInv]

InitSizing ==
  \E a \in {NoAnnotation} \cup {Annotation(v) : v \in SizingArgs},
     e \in SizingArgs, r \in RootfsSizes :
    InitCall([pc |-> "sizing", annot |-> a, env |-> e, rootfsSize |-> r])

\* the library call pending in slot p returns out
Returns(p, fn, out) ==
  /\ inv' = [inv EXCEPT ![p].pc = "returned"]
  /\ last' = [NoResult EXCEPT !.verb = fn, !.out = out]
  /\ UNCHANGED <<hostVars, sig, faults, usable, started, hist>>

ApplyVcpuCount(p) ==
  /\ inv[p].pc = "sizing"
  /\ Returns(p, "vcpuCount", vcpuCount(inv[p].annot, inv[p].env))

ApplyMemSizeMB(p) ==
  /\ inv[p].pc = "sizing"
  /\ Returns(p, "memSizeMB", memSizeMB(inv[p].annot, inv[p].env))

ApplyImageSize(p) ==
  /\ inv[p].pc = "sizing"
  /\ Returns(p, "imageSize", imageSize(inv[p].rootfsSize, inv[p].annot, inv[p].env))

NextSizing ==
  \/ \E p \in Slots : ApplyVcpuCount(p)
  \/ \E p \in Slots : ApplyMemSizeMB(p)
  \/ \E p \in Slots : ApplyImageSize(p)

SizingSpec == InitSizing /\ [][NextSizing]_vars

RECURSIVE Times1024(_, _)
\* the natural number x * 1024^k
Times1024(x, k) == IF k = 0 THEN x ELSE Times1024(MulLimbs(x, 1024, 0), k - 1)

\* a natural number that is a non-negative int64
FitsInt64(x) ==
  Len(Normal(x)) < Limbs64 \/ (Len(Normal(x)) = Limbs64 /\ x[Limbs64] < Limb \div 2)

\* the quantity a size string stands for, in units of which a G holds 1024^kG
\* and an M 1024^kM: a positive count, with or without a unit letter.  It is a
\* valid size when that quantity is an int64.
SizeOf(str, kG, kM) ==
  LET s == TrimSpace(str)
      suffix == ToUpper(SubSeq(s, Len(s), Len(s)))
      unit == suffix \in {<<71>>, <<77>>}
      r == ParseInt(IF unit THEN SubSeq(s, 1, Len(s) - 1) ELSE s)
      positive == r.ok /\ ~IsNeg64(r.n) /\ r.n # I64(0)
      exact == Times1024(r.n, IF suffix = <<71>> THEN kG ELSE IF suffix = <<77>> THEN kM ELSE 0)
  IN IF s = <<>> \/ ~positive \/ ~FitsInt64(exact) THEN [ok |-> FALSE, n |-> I64(0)]
     ELSE [ok |-> TRUE, n |-> Wrap64(exact)]

\* the count a string stands for: a positive decimal number that is an int64
CountOf(str) ==
  LET r == ParseInt(str)
  IN IF r.ok /\ ~IsNeg64(r.n) /\ r.n # I64(0) THEN r ELSE [ok |-> FALSE, n |-> I64(0)]

\* memory sizes are in MiB, disk sizes in bytes
MemOf(str) == SizeOf(str, 1, 0)
DiskOf(str) == SizeOf(str, 3, 2)

\* annotation, else environment, else default, a value counting when it is valid
Precedence(annot, env, Of(_), default) ==
  IF annot.ok /\ Of(annot.v).ok THEN Of(annot.v).n
  ELSE IF Of(env).ok THEN Of(env).n
  ELSE default

\* the larger of two int64
Max64(x, y) == IF Less64(x, y) THEN y ELSE x

\* C23: the vCPU count, the memory size and the minimum disk size are the
\* annotation when it is a valid value, else the environment value when it is a
\* valid value, else the default (1, 128 MiB, 1 GiB); the image size is the
\* larger of that minimum and the rootfs size plus a fifth of it.
C23_SizingPrecedence ==
  \A p \in Slots :
    (inv[p].pc = "returned" /\ last.verb \in {"vcpuCount", "memSizeMB", "imageSize"}) =>
      LET a == inv[p].annot
          e == inv[p].env
          r == inv[p].rootfsSize
      IN /\ last.err = ""
         /\ last.verb = "vcpuCount" => last.out = Precedence(a, e, CountOf, DefaultVCPUs)
         /\ last.verb = "memSizeMB" => last.out = Precedence(a, e, MemOf, DefaultMemMB)
         /\ last.verb = "imageSize" =>
              last.out = Max64(Precedence(a, e, DiskOf, DefaultMinSize), Add64(r, Div64(r, 5)))

\* ---------------------------------------------------------------------------
\* parseSize on its own: every short string over the bytes that matter, and
\* the numerals around the ends of int64
\* ---------------------------------------------------------------------------

\* the longest of the short strings
MaxArgLen == 3

\* the bytes 0 1 5 G M g - and space
SizeBytes == {48, 49, 53, 71, 77, 103, 45, 32}

\* "512M", "1024", "8589934591G", "8589934592G", "8796093022208M",
\* "9223372036854775807", "9223372036854775808"
LongSizeArgs ==
  { <<53, 49, 50, 77>>, <<49, 48, 50, 52>>,
    <<56, 53, 56, 57, 57, 51, 52, 53, 57, 49, 71>>,
    <<56, 53, 56, 57, 57, 51, 52, 53, 57, 50, 71>>,
    <<56, 55, 57, 54, 48, 57, 51, 48, 50, 50, 50, 48, 56, 77>>,
    <<57, 50, 50, 51, 51, 55, 50, 48, 51, 54, 56, 53, 52, 55, 55, 53, 56, 48, 55>>,
    <<57, 50, 50, 51, 51, 55, 50, 48, 51, 54, 56, 53, 52, 55, 55, 53, 56, 48, 56>> }

SizeArgs == UNION {[1..n -> SizeBytes] : n \in 0..MaxArgLen} \cup LongSizeArgs

InitParseSize == \E s \in SizeArgs : InitCall([pc |-> "parse", arg |-> s])

ApplyParseSize(p) ==
  /\ inv[p].pc = "parse"
  /\ Returns(p, "parseSize", parseSize(inv[p].arg))

NextParseSize == \E p \in Slots : ApplyParseSize(p)

ParseSizeSpec == InitParseSize /\ [][NextParseSize]_vars

\* a size string of one of the three forms "{n}", "{n}M", "{n}G", read
\* leniently (white space around it, a unit letter in either case, a + before
\* the digits): the digits of n and the power of 1024 its unit stands for
SizeForm(str) ==
  LET s == TrimSpace(str)
      suffix == ToUpper(SubSeq(s, Len(s), Len(s)))
      unit == suffix \in {<<71>>, <<77>>}
      num == IF unit THEN SubSeq(s, 1, Len(s) - 1) ELSE s
      digits == IF num # <<>> /\ num[1] = 43 THEN SubSeq(num, 2, Len(num)) ELSE num
  IN IF s = <<>> THEN [ok |-> FALSE, n |-> <<>>, k |-> 0]
     ELSE [ok |-> digits # <<>> /\ \A i \in 1..Len(digits) : digits[i] \in 48..57,
           n |-> digits,
           k |-> IF suffix = <<71>> THEN 3 ELSE IF suffix = <<77>> THEN 2 ELSE 0]

\* C24: parseSize returns exactly n * 2^30 for "{n}G", n * 2^20 for "{n}M" and n
\* for "{n}" whenever it accepts such a string with n positive, and rejects
\* every string that has none of the three forms.
C24_ParseSizeExact ==
  \A p \in Slots :
    (inv[p].pc = "returned" /\ last.verb = "parseSize") =>
      LET f == SizeForm(inv[p].arg)
          n == Normal(DigitsLimbs(f.n, <<>>))
          exact == Times1024(n, f.k)
      IN /\ ~f.ok => ~last.out.ok
         /\ (f.ok /\ n # <<>> /\ last.out.ok) =>
              (FitsInt64(exact) /\ last.out.n = Wrap64(exact))

\* ---------------------------------------------------------------------------
\* kill with every spelling of its signal argument, on a host where one
\* container has been created
\* ---------------------------------------------------------------------------

\* strings.ToLower on ASCII
ToLower(s) == [i \in 1..Len(s) |-> IF s[i] \in 65..90 THEN s[i] + 32 ELSE s[i]]

\* the known names in upper and in lower case, bare and behind SIG or sig
SpelledNames ==
  { pre \o nm : pre \in {<<>>, <<83, 73, 71>>, <<115, 105, 103>>},
                nm \in {e[1] : e \in SignalNames} \cup {ToLower(e[1]) : e \in SignalNames} }

\* none, "0", "1", "9", "15", "64", "65", "99", "-9", "+9", "SIG9", "sig15", "FOO",
\* "SIG", "SIGFOO", "1x", "HUPX", "XHUP", "TERM ", "SIGSIGTERM", "Kill", "SigInt", "9 "
OtherSigArgs ==
  { <<>>, <<48>>, <<49>>, <<57>>, <<49, 53>>, <<54, 52>>, <<54, 53>>, <<57, 57>>,
    <<45, 57>>, <<43, 57>>, <<83, 73, 71, 57>>, <<115, 105, 103, 49, 53>>,
    <<70, 79, 79>>, <<83, 73, 71>>, <<83, 73, 71, 70, 79, 79>>, <<49, 120>>,
    <<72, 85, 80, 88>>, <<88, 72, 85, 80>>, <<84, 69, 82, 77, 32>>,
    <<83, 73, 71, 83, 73, 71, 84, 69, 82, 77>>, <<75, 105, 108, 108>>,
    <<83, 105, 103, 73, 110, 116>>, <<57, 32>> }

AllSigArgs == SpelledNames \cup OtherSigArgs

\* the host after `create id` went through on an empty state root
CreatedHost(id) ==
  LET sub == SubnetOf(0)
      c == [ZeroCtr EXCEPT !.id = id, !.bundle = Bundle, !.status = Created, !.pid = 1,
                           !.rootDir = RootDir, !.imagePath = ImagePathOf(RootDir, id),
                           !.socketPath = SocketPathOf(id), !.tapDevice = TAPName(id),
                           !.guestIP = sub.GuestIP, !.hostIP = sub.HostIP,
                           !.subnetCIDR = sub.CIDR]
  IN /\ disk = [i \in Ids |-> IF i = id THEN JsonFile(c) ELSE NoFile]
     /\ dirs = {id}
     /\ image = {id}
     /\ taps = CreateTAP([n \in {} |-> {}], TAPName(id), sub.HostIP, 0, FALSE).taps
     /\ rules = SetupNAT(EmptyBag, TAPName(id), sub.CIDR, 0).rules
     /\ socks = {SocketPathOf(id)}
     /\ procs = {1}
     /\ nextPid = 2
     /\ hist = [i \in Ids |-> IF i = id THEN Created ELSE ""]

InitKill ==
  /\ CreatedHost(CHOOSE id \in Ids : TRUE)
  /\ sig = {}
  /\ started = 1
  /\ inv = [p \in Slots |-> IdleInv]
  /\ last = NoResult
  /\ usable = {FirstSlot}
  /\ faults = 0

NextKill ==
  \/ \E p \in Slots, id \in Ids, sigStr \in AllSigArgs : Kill(p, id, sigStr)
  \/ \E pid \in 1..MaxPid : VMMExit(pid)

KillSpec == InitKill /\ [][NextKill]_vars

\* two strings equal but for the case of their letters
FoldEq(a, b) == ToLower(a) = ToLower(b)

\* what a signal argument stands for: a known name or a decimal number, each
\* with or without SIG in front, in any case; nothing otherwise
Resolve(s) ==
  LET body == IF Len(s) >= 3 /\ FoldEq(SubSeq(s, 1, 3), <<83, 73, 71>>)
                THEN SubSeq(s, 4, Len(s)) ELSE s
      signed == body # <<>> /\ body[1] \in {43, 45}
      digits == IF signed THEN SubSeq(body, 2, Len(body)) ELSE body
      named == {e \in SignalNames : FoldEq(body, e[1])}
  IN IF named # {} THEN [kind |-> "name", n |-> (CHOOSE e \in named : TRUE)[2]]
     ELSE IF digits # <<>> /\ \A i \in 1..Len(digits) : digits[i] \in 48..57
       THEN [kind |-> "number",
             n |-> IF signed /\ body[1] = 45 THEN 0 - DigitsValue(digits, 0)
                   ELSE DigitsValue(digits, 0)]
     ELSE [kind |-> "none", n |-> 0]

MaxIdLen == 100

\* the length of sun_path in sockaddr_un
SunPathLen == 108

\* the two lower-case hex digits of a byte
Hex2(b) ==
  LET digit(d) == IF d < 10 THEN 48 + d ELSE 87 + d
  IN <<digit(b \div 16), digit(b % 16)>>

\* generateMAC as it would be if it padded short ids with the byte 0x30
generateMAC_padsWithDigit(id) ==
  LET b == [i \in 1..5 |-> IF i <= Len(id) THEN id[i] ELSE 48]
  IN <<48, 50>> \o <<58>> \o Hex2(b[1]) \o <<58>> \o Hex2(b[2]) \o <<58>> \o Hex2(b[3])
       \o <<58>> \o Hex2(b[4]) \o <<58>> \o Hex2(b[5])

\* vm.generateMAC: "02:%02x:%02x:%02x:%02x:%02x" of the first five bytes of the
\* id, zero bytes appended to an id shorter than five
generateMAC(id) ==
  LET b == [i \in 1..5 |-> IF i <= Len(id) THEN id[i] ELSE 0]
  IN <<48, 50>> \o <<58>> \o Hex2(b[1]) \o <<58>> \o Hex2(b[2]) \o <<58>> \o Hex2(b[3])
       \o <<58>> \o Hex2(b[4]) \o <<58>> \o Hex2(b[5])

\* vm.BuildConfig: the socket path is put into the record and into the
\* configuration; the machine gets its vCPUs and memory; a network interface
\* is added when the record has a TAP device
BuildConfig(c, annot, env) ==
  LET socketPath == SocketPathOf(c.id)
  IN [ctr |-> [c EXCEPT !.socketPath = socketPath],
      cfg |-> [SocketPath |-> socketPath,
               Drive |-> c.imagePath,
               VcpuCount |-> vcpuCount(annot, env),
               MemSizeMib |-> memSizeMB(annot, env),
               NetworkInterfaces |->
                 IF c.tapDevice # <<>>
                   THEN <<[MacAddress |-> generateMAC(c.id), HostDevName |-> c.tapDevice]>>
                   ELSE <<>>]]

\* ids of n bytes: hex digits in turn, starting at 0 or at a
IdOfLen(n, from) ==
  [i \in 1..n |-> LET d == (from + i) % 16 IN IF d < 10 THEN 48 + d ELSE 87 + d]

\* a state root nested 1 or 40 directories deep
RootOfDepth(d) == [i \in 1..(4 * d) |-> IF i % 4 = 1 THEN 47 ELSE 114]

InitConfig ==
  \E n \in 1..MaxIdLen, from \in {0, 9}, d \in {1, 40}, net \in BOOLEAN :
    LET id == IdOfLen(n, from)
        sub == SubnetOf(0)
    IN InitCall([pc |-> "config", annot |-> NoAnnotation, env |-> <<>>,
                 ctr |-> [ZeroCtr EXCEPT
                            !.id = id, !.bundle = Bundle, !.status = Creating,
                            !.rootDir = RootOfDepth(d),
                            !.imagePath = ImagePathOf(RootOfDepth(d), id),
                            !.tapDevice = IF net THEN TAPName(id) ELSE <<>>,
                            !.guestIP = IF net THEN sub.GuestIP ELSE <<>>,
                            !.hostIP = IF net THEN sub.HostIP ELSE <<>>,
                            !.subnetCIDR = IF net THEN sub.CIDR ELSE <<>>]])

\* BuildConfig is called on the record held in slot p
ApplyBuildConfig(p) ==
  /\ inv[p].pc = "config"
  /\ LET r == BuildConfig(inv[p].ctr, inv[p].annot, inv[p].env)
     IN /\ inv' = [inv EXCEPT ![p].pc = "returned", ![p].ctr = r.ctr]
        /\ last' = [NoResult EXCEPT !.verb = "BuildConfig", !.id = inv[p].ctr.id, !.out = r.cfg]
  /\ UNCHANGED <<hostVars, sig, faults, usable, started, hist>>

\* generateMAC is called on the id of the record held in slot p
ApplyGenerateMAC(p) ==
  /\ inv[p].pc = "config"
  /\ inv' = [inv EXCEPT ![p].pc = "returned"]
  /\ last' = [NoResult EXCEPT !.verb = "generateMAC", !.id = inv[p].ctr.id,
                              !.out = generateMAC(inv[p].ctr.id)]
  /\ UNCHANGED <<hostVars, sig, faults, usable, started, hist>>

NextConfig ==
  \/ \E p \in Slots : ApplyBuildConfig(p)
  \/ \E p \in Slots : ApplyGenerateMAC(p)

ConfigSpec == InitConfig /\ [][NextConfig]_vars

\* C26: the socket path BuildConfig puts into the configuration and the
\* record is "/tmp/fc-", at most the first 12 bytes of the id, and ".sock": at
\* most 108 bytes, whatever the lengths of the id and of the state root.
C26_SocketPathShort ==
  \A p \in Slots :
    (inv[p].pc = "returned" /\ last.verb = "BuildConfig") =>
      LET path == last.out.SocketPath
          id == inv[p].ctr.id
          mid == SubSeq(path, 9, Len(path) - 5)
      IN /\ inv[p].ctr.socketPath = path
         /\ Len(path) <= SunPathLen
         /\ SubSeq(path, 1, 8) = <<47, 116, 109, 112, 47, 102, 99, 45>>
         /\ SubSeq(path, Len(path) - 4, Len(path)) = <<46, 115, 111, 99, 107>>
         /\ Len(mid) <= 12
         /\ mid = SubSeq(id, 1, Len(mid))
         /\ Len(mid) < 12 => mid = id

\* C26 happens: BuildConfig has returned for an id and a state root that are
\* each longer than 108 bytes together with the socket's file name
C26_Witness ==
  \E p \in Slots :
    /\ inv[p].pc = "returned"
    /\ last.verb = "BuildConfig"
    /\ Len(inv[p].ctr.id) = MaxIdLen
    /\ Len(inv[p].ctr.rootDir) > SunPathLen
    /\ Len(last.out.SocketPath) = 25

\* the value of a lower-case hex digit, 16 for any other byte
UnhexDigit(ch) ==
  IF ch \in 48..57 THEN ch - 48 ELSE IF ch \in 97..102 THEN ch - 87 ELSE 16

\* mac is 02 followed by the first five bytes of id, zero for the bytes an id
\* shorter than five lacks, as six colon-separated pairs of lower-case hex digits
IsMACOf(mac, id) ==
  /\ Len(mac) = 17
  /\ SubSeq(mac, 1, 2) = <<48, 50>>
  /\ \A i \in 1..5 :
       /\ mac[3 * i] = 58
       /\ UnhexDigit(mac[3 * i + 1]) < 16
       /\ UnhexDigit(mac[3 * i + 2]) < 16
       /\ 16 * UnhexDigit(mac[3 * i + 1]) + UnhexDigit(mac[3 * i + 2])
            = (IF i <= Len(id) THEN id[i] ELSE 0)

\* C27: the guest MAC is determined by the container id alone: its first
\* octet is 02 and its other five octets are the first five bytes of the id,
\* zero bytes standing in when the id is shorter; this holds for generateMAC and
\* for the address BuildConfig gives the network interface.
C27_MACFromId ==
  \A p \in Slots :
    /\ (inv[p].pc = "returned" /\ last.verb = "generateMAC") =>
         IsMACOf(last.out, inv[p].ctr.id)
    /\ (inv[p].pc = "returned" /\ last.verb = "BuildConfig") =>
         \A k \in 1..Len(last.out.NetworkInterfaces) :
           IsMACOf(last.out.NetworkInterfaces[k].MacAddress, inv[p].ctr.id)

\* C27 happens: generateMAC has returned for an id of three bytes, the last
\* two octets being zero
C27_Witness ==
  \E p \in Slots :
    /\ inv[p].pc = "returned"
    /\ last.verb = "generateMAC"
    /\ Len(inv[p].ctr.id) = 3
    /\ SubSeq(last.out, 13, 17) = <<48, 48, 58, 48, 48>>
    /\ SubSeq(last.out, 1, 5) = <<48, 50, 58>> \o Hex2(inv[p].ctr.id[1])

\* ---------------------------------------------------------------------------
\* Save and Load on their own: records with and without their optional
\* fields, ids and bundle paths with bytes that JSON has to escape
\* ---------------------------------------------------------------------------

\* the ids tried: c1, a"b, é1 (UTF-8), c followed by the byte 0xff
RecordIds == {<<99, 49>>, <<97, 34, 98>>, <<195, 169, 49>>, <<99, 255>>}

\* the bundle paths tried: /b, /b<&>\, / with a line feed, / with U+2028,
\* /é in Latin-1
RecordBundles ==
  { <<47, 98>>, <<47, 98, 60, 38, 62, 92>>, <<47, 10>>, <<47, 226, 128, 168>>, <<47, 233>> }

\* the pids tried
RecordPids == {0, 1, 4194304}

InitRoundTrip ==
  /\ disk = [i \in RecordIds |-> NoFile]
  /\ dirs = {}
  /\ image = {}
  /\ taps = [n \in {} |-> {}]
  /\ rules = EmptyBag
  /\ socks = {}
  /\ procs = {}
  /\ nextPid = 1
  /\ sig = {}
  /\ started = 1
  /\ last = NoResult
  /\ hist = [i \in RecordIds |-> ""]
  /\ usable = {FirstSlot}
  /\ faults = 0
  /\ \E id \in RecordIds, b \in RecordBundles, pid \in RecordPids, net \in BOOLEAN,
        vm \in BOOLEAN, st \in {Creating, Created, Running, Stopped} :
       LET sub == SubnetOf(0)
           c == [id |-> id, bundle |-> b, status |-> st, pid |-> pid, rootDir |-> RootDir,
                 imagePath |-> IF vm THEN ImagePathOf(RootDir, id) ELSE <<>>,
                 socketPath |-> IF vm THEN SocketPathOf(id) ELSE <<>>,
                 tapDevice |-> IF net THEN TAPName(id) ELSE <<>>,
                 guestIP |-> IF net THEN sub.GuestIP ELSE <<>>,
                 hostIP |-> IF net THEN sub.HostIP ELSE <<>>,
                 subnetCIDR |-> IF net THEN sub.CIDR ELSE <<>>]
       IN inv = [p \in Slots |->
                   IF p = FirstSlot
                     THEN [NewInv("start", id, FALSE) EXCEPT !.pc = "save_open", !.ctr = c]
                     ELSE IdleInv]

\* container.Load(rootDir, id) is called once no Save is under way
LoadRecord(p, id) ==
  /\ p = FirstSlot
  /\ inv[p].pc = "idle"
  /\ last' = [NoResult EXCEPT !.verb = "Load", !.id = id, !.err = Load(id).err,
                              !.out = Load(id).ctr]
  /\ sig' = {}
  /\ UNCHANGED <<hostVars, faults, usable, started, inv, hist>>

NextRoundTrip ==
  \/ \E p \in Slots : SaveOpen(p)
  \/ \E p \in Slots : SaveWrite(p)
  \/ \E p \in Slots, id \in RecordIds : LoadRecord(p, id)

RoundTripSpec == InitRoundTrip /\ [][NextRoundTrip]_vars

\* C28: once Save has written a record, Load of its id succeeds and returns a
\* record equal to it in all eleven fields, absent optional fields and a pid
\* of 0 included.
C28_RoundTrip ==
  [][\A p \in Slots, id \in RecordIds :
       (inv[p].pc = "save_write" /\ inv[p].ctr.id = id /\ disk'[id].kind = "json")
       => /\ Load(id)'.err = ""
          /\ \A f \in DOMAIN ZeroCtr : Load(id)'.ctr[f] = inv[p].ctr[f]]_vars

\* ---------------------------------------------------------------------------
\* The guest init (dock-fire-init, PID 1 of the VM).  The record of the first
\* slot holds the init process: where it is, what it found in the guest, and
\* what has become of its child.
\* ---------------------------------------------------------------------------

\* the init process at the start of main: the guest image decides what
\* /etc/dock-fire/config.json and /etc/resolv.conf hold, whether the working
\* directory exists, whether the command resolves and whether it starts
InitGuest ==
  \E config \in {"absent", "malformed", "ok"}, nargs \in 0..2, cwd \in {"", "ok", "missing"},
     resolv \in {"absent", "empty", "set"}, resolves \in BOOLEAN, starts \in BOOLEAN :
    InitCall([pc |-> "mount", config |-> config, nargs |-> nargs, cwd |-> cwd,
              resolv |-> resolv, resolves |-> resolves, starts |-> starts,
              err |-> "", child |-> "none", forwarded |-> FALSE,
              synced |-> FALSE, rebooted |-> FALSE])

\* the init process in slot p goes on as r
GuestStep(p, r) ==
  /\ inv' = [inv EXCEPT ![p] = r]
  /\ UNCHANGED <<hostVars, sig, faults, usable, started, last, hist>>

\* run returns the error e to main
GuestError(p, e) == GuestStep(p, [inv[p] EXCEPT !.pc = "failed", !.err = e])

\* run: /proc, /sys and /dev are mounted, failures ignored; resolv.conf is
\* written when it is absent or empty
GuestMount(p) ==
  /\ inv[p].pc = "mount"
  /\ GuestStep(p, [inv[p] EXCEPT !.pc = "config",
                                 !.resolv = IF inv[p].resolv = "set" THEN "set" ELSE "default"])

\* run: the config is read and parsed, and must name a command
GuestConfig(p) ==
  /\ inv[p].pc = "config"
  /\ IF inv[p].config = "absent" THEN GuestError(p, "read config")
     ELSE IF inv[p].config = "malformed" THEN GuestError(p, "parse config")
     ELSE IF inv[p].nargs = 0 THEN GuestError(p, "no command specified")
     ELSE GuestStep(p, [inv[p] EXCEPT !.pc = "chdir"])

\* run: the working directory is entered when one is given
GuestChdir(p) ==
  /\ inv[p].pc = "chdir"
  /\ IF inv[p].cwd = "missing" THEN GuestError(p, "chdir")
     ELSE GuestStep(p, [inv[p] EXCEPT !.pc = "resolve"])

\* run: PATH is set and the command looked up
GuestResolve(p) ==
  /\ inv[p].pc = "resolve"
  /\ IF ~inv[p].resolves THEN GuestError(p, "resolve command")
     ELSE GuestStep(p, [inv[p] EXCEPT !.pc = "start"])

\* run: the child is started and signal forwarding set up
GuestStart(p) ==
  /\ inv[p].pc = "start"
  /\ IF ~inv[p].starts THEN GuestError(p, "start command")
     ELSE GuestStep(p, [inv[p] EXCEPT !.pc = "wait", !.child = "running"])

\* the forwarding goroutine passes a signal on to the child
GuestSignal(p) ==
  /\ inv[p].pc = "wait"
  /\ inv[p].child = "running"
  /\ ~inv[p].forwarded
  /\ GuestStep(p, [inv[p] EXCEPT !.forwarded = TRUE])

\* the child ends: it exits with status 0 or another status, or a signal kills it
ChildExit(p) ==
  /\ inv[p].pc = "wait"
  /\ inv[p].child = "running"
  /\ \E how \in {"exit 0", "exit 1", "signal"} :
       GuestStep(p, [inv[p] EXCEPT !.child = how])

\* run: cmd.Wait returns and reboot is called
GuestWait(p) ==
  /\ inv[p].pc = "wait"
  /\ inv[p].child \notin {"none", "running"}
  /\ GuestStep(p, [inv[p] EXCEPT !.pc = "sync"])

\* main as it would be if it left without rebooting when run fails
GuestMain_exits(p) ==
  /\ inv[p].pc = "failed"
  /\ GuestStep(p, [inv[p] EXCEPT !.pc = "exited"])

\* main: the error of run is printed and reboot is called
GuestMain(p) ==
  /\ inv[p].pc = "failed"
  /\ GuestStep(p, [inv[p] EXCEPT !.pc = "sync"])

\* reboot: syscall.Sync
GuestSync(p) ==
  /\ inv[p].pc = "sync"
  /\ GuestStep(p, [inv[p] EXCEPT !.pc = "reboot", !.synced = TRUE])

\* reboot: syscall.Reboot restarts the machine, or fails and os.Exit(0) follows
GuestReboot(p) ==
  /\ inv[p].pc = "reboot"
  /\ \E ok \in BOOLEAN :
       GuestStep(p, [inv[p] EXCEPT !.pc = IF ok THEN "restarted" ELSE "exited",
                                   !.rebooted = TRUE])

NextGuest ==
  \/ \E p \in Slots : GuestMount(p)
  \/ \E p \in Slots : GuestConfig(p)
  \/ \E p \in Slots : GuestChdir(p)
  \/ \E p \in Slots : GuestResolve(p)
  \/ \E p \in Slots : GuestStart(p)
  \/ \E p \in Slots : GuestSignal(p)
  \/ \E p \in Slots : ChildExit(p)
  \/ \E p \in Slots : GuestWait(p)
  \/ \E p \in Slots : GuestMain(p)
  \/ \E p \in Slots : GuestSync(p)
  \/ \E p \in Slots : GuestReboot(p)

GuestSpec == InitGuest /\ [][NextGuest]_vars

\* the init process is scheduled: every step of its own that stays possible is
\* taken; when the child ends is up to the child
GuestFairSpec ==
  /\ GuestSpec
  /\ \A p \in {FirstSlot} :
       /\ WF_vars(GuestMount(p)) /\ WF_vars(GuestConfig(p)) /\ WF_vars(GuestChdir(p))
       /\ WF_vars(GuestResolve(p)) /\ WF_vars(GuestStart(p)) /\ WF_vars(GuestWait(p))
       /\ WF_vars(GuestMain(p)) /\ WF_vars(GuestSync(p)) /\ WF_vars(GuestReboot(p))

\* the init process
Guest == inv[FirstSlot]

\* C29: an init whose config is absent or malformed, that has no command or
\* cannot resolve or start it, or whose child has ended, goes on to call
\* reboot, after a sync; and init is never over without having called reboot.
C29_InitEndsInReboot ==
  /\ [](Guest.pc \in {"exited", "restarted"} => Guest.rebooted)
  /\ [](Guest.rebooted => Guest.synced)
  /\ (Guest.config # "ok" \/ Guest.nargs = 0 \/ ~Guest.resolves \/ ~Guest.starts
        \/ Guest.child \in {"exit 0", "exit 1", "signal"}) ~> Guest.rebooted

\* C29 happens: the child was killed by a signal and init has called reboot
C29_Witness ==
  /\ Guest.pc \in {"exited", "restarted"}
  /\ Guest.child = "signal"
  /\ Guest.synced
  /\ Guest.rebooted

\* ---------------------------------------------------------------------------
\* network.AllocateSubnet on hosts left behind by earlier runs: records with
\* or without a subnet or cut short, links with the addresses of any
\* candidates, named df-* or not
\* ---------------------------------------------------------------------------

\* a host link that does not belong to the runtime ("eth0")
OtherLink == <<101, 116, 104, 48>>

\* the links of the hosts explored
AllocLinks == {TAPName(i) : i \in Ids} \cup {OtherLink}

\* the host addresses of the candidates, as `ip addr add {hostIP}/30` attaches them
CandidateAddrs == {SubnetOf(i).HostIP \o <<30>> : i \in 0..(NumSubnets - 1)}

\* state.json of a container created earlier that was given subnet cidr ("" is none)
RecordFile(id, cidr) ==
  JsonFile([ZeroCtr EXCEPT !.id = id, !.bundle = Bundle, !.status = Created, !.pid = 1,
                           !.rootDir = RootDir, !.imagePath = ImagePathOf(RootDir, id),
                           !.socketPath = SocketPathOf(id), !.tapDevice = TAPName(id),
                           !.subnetCIDR = cidr])

\* `create id` has reached setupNetworking (its directory and image exist, its
\* record is not written yet) on such a host
InitAlloc ==
  /\ rules = EmptyBag
  /\ socks = {}
  /\ procs = {}
  /\ nextPid = 1
  /\ sig = {}
  /\ started = 1
  /\ last = NoResult
  /\ hist = [i \in Ids |-> ""]
  /\ usable = {}
  /\ faults = 1
  /\ \E id \in Ids :
       /\ image = {id}
       /\ inv = [p \in Slots |->
                   IF p = FirstSlot
                     THEN [NewInv("create", id, FALSE) EXCEPT
                             !.pc = "c_alloc",
                             !.ctr = [ZeroCtr EXCEPT !.id = id, !.bundle = Bundle,
                                                     !.status = Creating, !.rootDir = RootDir,
                                                     !.imagePath = ImagePathOf(RootDir, id)]]
                     ELSE IdleInv]
       /\ \E f \in {NoFile, Truncated}
                   \cup {RecordFile(o, cidr) : o \in Ids \ {id},
                           cidr \in {<<>>} \cup {CandidateCIDR(i) : i \in 0..(NumSubnets - 1)}} :
            /\ disk = [i \in Ids |-> IF i = id THEN NoFile ELSE f]
            /\ dirs = {id} \cup {o \in Ids \ {id} : f # NoFile}
       /\ \E links \in SUBSET AllocLinks :
            taps \in [links -> SUBSET CandidateAddrs]

NextAlloc == \E p \in Slots : SetupAlloc(p)

AllocSpec == InitAlloc /\ [][NextAlloc]_vars

\* this step is the AllocateSubnet of slot p, returning a subnet or an error
AllocateSubnetReturns(p) == inv[p].pc = "c_alloc" /\ inv'[p].pc # "c_alloc"

\* the candidates excluded: recorded in a record that loads, or with an
\* address on a link named df-*
Excluded == LiveTapCandidates \cup RecordedCandidates

\* AllocateSubnet of slot p fails with the no-free-subnet error when every
\* candidate is excluded, and otherwise returns 10.0.(4i div 256).(4i mod 256)/30
\* for the smallest i not excluded
LowestFreeOrNone(p) ==
  IF Excluded = 0..(NumSubnets - 1)
    THEN /\ inv'[p].pc = "idle"
         /\ last'.verb = "create"
         /\ last'.err = "setup networking: allocate subnet"
  ELSE LET i == LowestFree(Excluded)
       IN /\ inv'[p].pc = "c_net"
          /\ inv'[p].sub.CIDR = <<10, 0, (4 * i) \div 256, (4 * i) % 256, 30>>

WordDefault == <<100, 101, 102, 97, 117, 108, 116>>
WordVia == <<118, 105, 97>>
WordDev == <<100, 101, 118>>
Gateway == <<49, 48, 46, 57, 46, 57, 46, 49>>
\* a second interface of the host ("wlan0")
OtherIface == <<119, 108, 97, 110, 48>>

\* what `ip route show default` answers: the command fails, no default route,
\* or a default route through one of the two interfaces
RouteVia(iface) == [ok |-> TRUE, fields |-> <<WordDefault, WordVia, Gateway, WordDev, iface>>]
NoRoute == [ok |-> TRUE, fields |-> <<>>]
RouteFails == [ok |-> FALSE, fields |-> <<>>]
Routes == {RouteVia(OutIface), RouteVia(OtherIface), NoRoute, RouteFails}

RECURSIVE DevFrom(_, _)
\* the loop of detectDefaultInterface from field i on: the field after the first "dev"
DevFrom(fields, i) ==
  IF i > Len(fields) THEN [err |-> "no default route found", iface |-> <<>>]
  ELSE IF fields[i] = WordDev /\ i + 1 <= Len(fields) THEN [err |-> "", iface |-> fields[i + 1]]
  ELSE DevFrom(fields, i + 1)

\* detectDefaultInterface on the answer of `ip route show default`
detectDefaultInterface(route) ==
  IF ~route.ok THEN [err |-> "ip route", iface |-> <<>>]
  ELSE DevFrom(route.fields, 1)

\* network.SetupNAT on the rule bag r with the route as it is now.  failAt: 0
\* none, 2 the sysctl, 3..5 the first, second, third iptables -A.
SetupNATOn(route, r, tapName, subnetCIDR, failAt) ==
  LET d == detectDefaultInterface(route)
      rs == NatRules(tapName, subnetCIDR, d.iface)
      firstN(n) == SetToBag({rs[i] : i \in 1..n})
  IN IF d.err # "" \/ failAt = 2 THEN [ok |-> FALSE, rules |-> r]
     ELSE IF failAt \in 3..5 THEN [ok |-> FALSE, rules |-> r (+) firstN(failAt - 3)]
     ELSE [ok |-> TRUE, rules |-> r (+) firstN(3)]

\* network.TeardownNAT on the rule bag r with the route as it is now.  failAt:
\* 0 none, 2..4 the first, second, third iptables -D fails (an iptables -D of a
\* rule that is not installed fails by itself and removes nothing).
TeardownNATOn(route, r, tapName, subnetCIDR, failAt) ==
  LET d == detectDefaultInterface(route)
      rs == NatRules(tapName, subnetCIDR, d.iface)
  IN IF d.err # "" THEN r
     ELSE r (-) SetToBag({rs[i] : i \in (1..3) \ {failAt - 1}})

\* network.Setup is about to call SetupNAT for a container on a host without rules
InitNat ==
  \E id \in Ids, i \in 0..(NumSubnets - 1), route \in Routes :
    InitCall([pc |-> "setup", route |-> route, tapName |-> TAPName(id),
              subnetCIDR |-> CandidateCIDR(i), added |-> EmptyBag])

\* SetupNAT as network.Setup calls it
NatSetup(p) ==
  /\ inv[p].pc = "setup"
  /\ \E failAt \in {0} \cup 2..5 :
       LET r == SetupNATOn(inv[p].route, rules, inv[p].tapName, inv[p].subnetCIDR, failAt)
       IN /\ rules' = r.rules
          /\ inv' = [inv EXCEPT ![p].pc = IF r.ok THEN "up" ELSE "failed",
                                ![p].added = r.rules (-) rules]
  /\ last' = NoResult
  /\ UNCHANGED <<disk, dirs, image, taps, socks, procs, nextPid>>
  /\ UNCHANGED <<sig, faults, usable, started, hist>>

\* the default route of the host changes while the container is up
RouteChange(p) ==
  /\ inv[p].pc = "up"
  /\ \E route \in Routes \ {inv[p].route} : inv' = [inv EXCEPT ![p].route = route]
  /\ last' = NoResult
  /\ UNCHANGED <<hostVars, sig, faults, usable, started, hist>>

\* TeardownNAT as network.Teardown calls it, with the tapDevice and subnetCIDR
\* of the record
NatTeardown(p) ==
  /\ inv[p].pc = "up"
  /\ \E failAt \in {0} \cup 2..4 :
       rules' = TeardownNATOn(inv[p].route, rules, inv[p].tapName, inv[p].subnetCIDR, failAt)
  /\ inv' = [inv EXCEPT ![p].pc = "down"]
  /\ last' = NoResult
  /\ UNCHANGED <<disk, dirs, image, taps, socks, procs, nextPid>>
  /\ UNCHANGED <<sig, faults, usable, started, hist>>

NextNat ==
  \/ \E p \in Slots : NatSetup(p)
  \/ \E p \in Slots : RouteChange(p)
  \/ \E p \in Slots : NatTeardown(p)

NatSpec == InitNat /\ [][NextNat]_vars

\* C31: the rules a Teardown deletes are exactly the three rules the Setup
\* of that container added, and none of them remains installed afterwards.
C31_TeardownRemovesSetupRules ==
  [][\A p \in Slots :
       (inv[p].pc = "up" /\ inv'[p].pc = "down") =>
         /\ BagCardinality(inv[p].added) = 3
         /\ rules (-) rules' = inv[p].added
         /\ \A x \in BagToSet(inv[p].added) : ~BagIn(x, rules')]_vars

\* ---------------------------------------------------------------------------
\* The order of the steps of one create (CreateCommand.Action)
\* ---------------------------------------------------------------------------

\* what has and has not happened yet when the create in slot p stands before
\* the step named by its pc: the image is built before the network is set up,
\* the network before the VMM is launched, the VMM before the record is saved
CreateStage(p) ==
  LET c == inv[p].ctr
      built == c.id \in image /\ c.imagePath = ImagePathOf(RootDir, c.id)
      netDone == c.tapDevice = TAPName(c.id) /\ c.subnetCIDR # <<>>
      launched == c.pid > 0 /\ c.pid < nextPid /\ c.socketPath = SocketPathOf(c.id)
      unsaved == disk[c.id] = NoFile
  IN CASE inv[p].pc \in {"c_alloc", "c_net"} ->
            built /\ c.tapDevice = <<>> /\ c.pid = 0 /\ unsaved /\ c.status = Creating
       [] inv[p].pc = "c_vm" ->
            built /\ netDone /\ c.pid = 0 /\ unsaved /\ c.status = Creating
       [] inv[p].pc = "save_open" ->
            built /\ netDone /\ launched /\ unsaved /\ c.status = Created
       [] inv[p].pc = "save_write" ->
            built /\ netDone /\ launched /\ disk[c.id] = Truncated /\ c.status = Created
       [] OTHER -> FALSE

\* the steps of the create in slot p follow each other in the one order, the
\* VMM launched is a new process whose pid goes into the record, and a create
\* that succeeds has saved that record with status created in its last step,
\* the pid-file, when one is written, holding the same pid
CreateStep(p) ==
  LET c == inv[p].ctr
      d == inv'[p].ctr
      next == [c_alloc |-> "c_net", c_net |-> "c_vm", c_vm |-> "save_open",
               save_open |-> "save_write", save_write |-> "idle"]
  IN /\ inv'[p].pc \in {inv[p].pc, next[inv[p].pc], "idle"}
     /\ inv'[p].pc = "save_open" /\ inv[p].pc = "c_vm" =>
          d.pid \notin procs /\ procs' = procs \cup {d.pid}
     /\ inv[p].pc # "c_vm" => (procs' \subseteq procs /\ (inv'[p].pc # "idle" => d.pid = c.pid))
     /\ (inv'[p].pc = "idle" /\ last'.err = "") =>
          /\ inv[p].pc = "save_write"
          /\ \E id \in Ids : id = c.id /\ IsStored(id)' /\ Stored(id)' = c
          /\ c.status = Created
          /\ last'.pidfile \in {0, c.pid}

Statuses == {Creating, Created, Running, Stopped, "", "paused"}

\* c.Transition(to) is about to be called on a record
InitTransition ==
  \E from \in Statuses, to \in Statuses, id \in Ids, n \in (0 - 1)..MaxPid :
    InitCall([pc |-> "transition", to |-> to,
              ctr |-> [ZeroCtr EXCEPT !.id = id, !.bundle = Bundle, !.rootDir = RootDir,
                                      !.status = from, !.pid = n]])

ApplyTransition(p) ==
  /\ inv[p].pc = "transition"
  /\ Returns(p, "Transition", Transition(inv[p].ctr, inv[p].to))

NextTransition == \E p \in Slots : ApplyTransition(p)

TransitionSpec == InitTransition /\ [][NextTransition]_vars

\* the three moves of the state machine
LegalMoves == {<<Creating, Created>>, <<Created, Running>>, <<Running, Stopped>>}

\* C33: Transition(to) succeeds and sets the status to `to` exactly for
\* (creating, created), (created, running) and (running, stopped); for every
\* other pair it returns an error and leaves the status as it was.
C33_TransitionTable ==
  \A p \in Slots :
    (inv[p].pc = "returned" /\ last.verb = "Transition") =>
      LET c == inv[p].ctr
          legal == <<c.status, inv[p].to>> \in LegalMoves
      IN /\ last.out.ok <=> legal
         /\ last.out.ctr = [c EXCEPT !.status = IF legal THEN inv[p].to ELSE c.status]

\* C33 happens: a Transition out of stopped has just been refused
C33_Witness ==
  \E p \in Slots :
    /\ inv[p].pc = "returned"
    /\ last.verb = "Transition"
    /\ inv[p].ctr.status = Stopped
    /\ inv[p].to = Running
    /\ ~last.out.ok
    /\ last.out.ctr.status = Stopped

\* ---------------------------------------------------------------------------
\* vm.Stop step by step, the VMM exiting when it likes (part_009, Stop)
\* ---------------------------------------------------------------------------

\* vm.Stop is about to be called on a record; any set of processes is alive
InitStop ==
  /\ disk = [i \in Ids |-> NoFile]
  /\ dirs = {}
  /\ image = {}
  /\ taps = [n \in {} |-> {}]
  /\ rules = EmptyBag
  /\ socks = {}
  /\ nextPid = MaxPid + 1
  /\ sig = {}
  /\ started = 0
  /\ last = NoResult
  /\ hist = [i \in Ids |-> ""]
  /\ usable = {}
  /\ faults = 0
  /\ procs \in SUBSET (1..MaxPid)
  /\ \E st \in {Creating, Created, Running, Stopped}, n \in (0 - 1)..MaxPid :
       inv = [p \in Slots |->
                IF p = FirstSlot
                  THEN [pc |-> "stop", tried |-> <<>>, probed |-> "",
                        ctr |-> [ZeroCtr EXCEPT !.status = st, !.pid = n]]
                  ELSE IdleInv]

\* Stop returns nil from slot p
StopReturns(p, r) ==
  /\ inv' = [inv EXCEPT ![p] = [r EXCEPT !.pc = "returned"]]
  /\ last' = [NoResult EXCEPT !.verb = "Stop", !.err = ""]

\* the pid check, os.FindProcess (which cannot fail on Linux) and
\* proc.Signal(SIGTERM): Stop returns when the signal cannot be delivered
StopTerm(p) ==
  /\ inv[p].pc = "stop"
  /\ LET pid == inv[p].ctr.pid
         r == [inv[p] EXCEPT !.tried = Append(@, "TERM")]
     IN IF pid <= 0 THEN sig' = {} /\ StopReturns(p, inv[p])
        ELSE IF pid \notin procs THEN sig' = {} /\ StopReturns(p, r)
        ELSE /\ sig' = {<<pid, "TERM">>}
             /\ inv' = [inv EXCEPT ![p] = [r EXCEPT !.pc = "probe"]]
             /\ last' = NoResult
  /\ UNCHANGED <<hostVars, faults, usable, started, hist>>

\* StopProbe as it would be if the SIGKILL followed whatever the probe found
StopProbe_killsAnyway(p) ==
  /\ inv[p].pc = "probe"
  /\ inv' = [inv EXCEPT ![p].pc = "kill",
                        ![p].probed = IF inv[p].ctr.pid \in procs THEN "alive" ELSE "dead"]
  /\ sig' = {}
  /\ last' = NoResult
  /\ UNCHANGED <<hostVars, faults, usable, started, hist>>

\* proc.Signal(syscall.Signal(0)): nil when the process is still there
StopProbe(p) ==
  /\ inv[p].pc = "probe"
  /\ IF inv[p].ctr.pid \in procs
       THEN inv' = [inv EXCEPT ![p].pc = "kill", ![p].probed = "alive"] /\ last' = NoResult
     ELSE StopReturns(p, [inv[p] EXCEPT !.probed = "dead"])
  /\ sig' = {}
  /\ UNCHANGED <<hostVars, faults, usable, started, hist>>

\* proc.Signal(SIGKILL), its error dropped; return nil
StopKill(p) ==
  /\ inv[p].pc = "kill"
  /\ LET pid == inv[p].ctr.pid
     IN /\ sig' = IF pid \in procs THEN {<<pid, "KILL">>} ELSE {}
        /\ procs' = procs \ {pid}
  /\ StopReturns(p, [inv[p] EXCEPT !.tried = Append(@, "KILL")])
  /\ UNCHANGED <<disk, dirs, image, taps, rules, socks, nextPid>>
  /\ UNCHANGED <<faults, usable, started, hist>>

\* the VMM exits, by itself or because of the SIGTERM, while Stop is running
StopRace(p, pid) ==
  /\ inv[p].pc \in {"stop", "probe", "kill"}
  /\ pid \in procs
  /\ procs' = procs \ {pid}
  /\ sig' = {}
  /\ UNCHANGED <<disk, dirs, image, taps, rules, socks, nextPid>>
  /\ UNCHANGED <<faults, usable, started, inv, last, hist>>

NextStop ==
  \/ \E p \in Slots : StopTerm(p)
  \/ \E p \in Slots : StopProbe(p)
  \/ \E p \in Slots : StopKill(p)
  \/ \E p \in Slots, pid \in 1..MaxPid : StopRace(p, pid)

StopSpec == InitStop /\ [][NextStop]_vars

\* the call of Stop, pending or returned, in the first slot
StopCall == inv[FirstSlot]

\* C34: Stop sends SIGTERM to the recorded pid first, sends SIGKILL only if the
\* signal-0 probe that follows found the process alive, sends nothing when
\* pid <= 0, and returns success in every case, a signal that cannot be
\* delivered included.
C34_StopSequence ==
  /\ StopCall.tried \in {<<>>, <<"TERM">>, <<"TERM", "KILL">>}
  /\ StopCall.ctr.pid <= 0 => StopCall.tried = <<>>
  /\ (StopCall.ctr.pid > 0 /\ StopCall.pc # "stop") => StopCall.tried # <<>>
  /\ StopCall.tried = <<"TERM", "KILL">> => StopCall.probed = "alive"
  /\ (StopCall.pc = "returned" /\ StopCall.probed = "alive") => StopCall.tried = <<"TERM", "KILL">>
  /\ StopCall.probed # "" => StopCall.tried[1] = "TERM"
  /\ \A s \in sig : s[1] = StopCall.ctr.pid
  /\ StopCall.pc = "returned" => (last.verb = "Stop" /\ last.err = "")

\* C34 happens: Stop has returned after a SIGTERM the VMM did not die of in
\* time and the SIGKILL that followed the probe
C34_Witness ==
  /\ StopCall.pc = "returned"
  /\ StopCall.tried = <<"TERM", "KILL">>
  /\ sig = {<<StopCall.ctr.pid, "KILL">>}
  /\ last.err = ""

\* ---------------------------------------------------------------------------
\* vm.Start step by step, with the two ends of the console PTY (part_009,
\* Start; internal/vm/console.go)
\* ---------------------------------------------------------------------------

\* vm.Start is about to be called for a container whose network is set up,
\* with or without a console socket, a stale control socket lying about or
\* not, other VMMs having been launched before or not
InitStart ==
  \E id \in Ids, tty \in BOOLEAN, stale \in BOOLEAN, np \in 1..MaxPid, live \in SUBSET (1..MaxPid) :
    /\ \A q \in live : q < np
    /\ disk = [i \in Ids |-> NoFile]
    /\ dirs = {id}
    /\ image = {id}
    /\ taps = CreateTAP([n \in {} |-> {}], TAPName(id), SubnetOf(0).HostIP, 0, FALSE).taps
    /\ rules = SetupNAT(EmptyBag, TAPName(id), SubnetOf(0).CIDR, 0).rules
    /\ socks = IF stale THEN {SocketPathOf(id)} ELSE {}
    /\ procs = live
    /\ nextPid = np
    /\ sig = {}
    /\ started = 1
    /\ last = NoResult
    /\ hist = [i \in Ids |-> ""]
    /\ usable = {}
    /\ faults = 0
    /\ inv = [p \in Slots |->
                IF p = FirstSlot
                  THEN [pc |-> "s_files", id |-> id, tty |-> tty, master |-> "none",
                        slave |-> "none", ev |-> <<>>, pid |-> 0]
                  ELSE IdleInv]

\* Start returns error e ("" is nil) from slot p, the call ending as r
StartReturns(p, r, e) ==
  /\ inv' = [inv EXCEPT ![p] = [r EXCEPT !.pc = "returned"]]
  /\ last' = [NoResult EXCEPT !.verb = "Start", !.id = r.id, !.err = e]

\* the call in slot p goes on as r
StartStep(p, r) == inv' = [inv EXCEPT ![p] = r] /\ last' = NoResult

\* BuildConfig, os.Remove of the socket path, the two log files
StartFiles(p) ==
  /\ inv[p].pc = "s_files"
  /\ socks' = socks \ {SocketPathOf(inv[p].id)}
  /\ \/ StartStep(p, [inv[p] EXCEPT !.pc = IF inv[p].tty THEN "s_pty" ELSE "s_machine"])
     \/ \E e \in {"open stderr log", "create log file"} : StartReturns(p, inv[p], e)
  /\ sig' = {}
  /\ UNCHANGED <<disk, dirs, image, taps, rules, procs, nextPid>>
  /\ UNCHANGED <<faults, usable, started, hist>>

\* openPTY.  failAt: 0 none, 1 the open of /dev/ptmx, 2 TIOCGPTN, 3 TIOCSPTLCK,
\* 4 the open of the slave.  From 2 on the master is open when the call fails:
\* the return statement has set the result `master` to nil before the deferred
\* function calls master.Close(), which then closes nothing; the descriptor
\* stays open unless the finalizer of the unreachable file has run meanwhile.
StartOpenPTY(p) ==
  /\ inv[p].pc = "s_pty"
  /\ \E failAt \in 0..4, finalized \in BOOLEAN :
       /\ finalized => failAt >= 2
       /\ IF failAt = 0
            THEN StartStep(p, [inv[p] EXCEPT !.pc = "s_send", !.master = "open", !.slave = "open",
                                             !.ev = Append(@, "openPTY")])
          ELSE StartReturns(p, [inv[p] EXCEPT !.master = IF failAt = 1 THEN "none"
                                                          ELSE IF finalized THEN "closed"
                                                          ELSE "open"],
                            "open pty")
  /\ sig' = {}
  /\ UNCHANGED <<hostVars, faults, usable, started, hist>>

\* sendConsoleFd, then master.Close(); both ends are closed when it fails
StartSendFd(p) ==
  /\ inv[p].pc = "s_send"
  /\ \/ StartStep(p, [inv[p] EXCEPT !.pc = "s_machine", !.master = "closed",
                                    !.ev = @ \o <<"sendConsoleFd", "master.Close">>])
     \/ StartReturns(p, [inv[p] EXCEPT !.master = "closed", !.slave = "closed"],
                     "send console fd")
  /\ sig' = {}
  /\ UNCHANGED <<hostVars, faults, usable, started, hist>>

\* the command is built with the slave (or the runtime's own stdin and stdout)
\* and firecracker.NewMachine is called; its error path closes the stderr log only
StartNewMachine(p) ==
  /\ inv[p].pc = "s_machine"
  /\ \/ StartStep(p, [inv[p] EXCEPT !.pc = "s_spawn"])
     \/ StartReturns(p, inv[p], "create machine")
  /\ sig' = {}
  /\ UNCHANGED <<hostVars, faults, usable, started, hist>>

\* machine.Start, which spawns the VMM, then slave.Close() on either outcome
StartMachine(p) ==
  /\ inv[p].pc = "s_spawn"
  /\ LET closed == [inv[p] EXCEPT !.slave = IF @ = "open" THEN "closed" ELSE @,
                                  !.ev = IF inv[p].tty THEN @ \o <<"spawn", "slave.Close">>
                                         ELSE Append(@, "spawn")]
     IN \/ /\ nextPid <= MaxPid
           /\ procs' = procs \cup {nextPid}
           /\ nextPid' = nextPid + 1
           /\ socks' = socks \cup {SocketPathOf(inv[p].id)}
           /\ StartStep(p, [closed EXCEPT !.pc = "s_pid", !.pid = nextPid])
        \/ /\ StartReturns(p, closed, "start machine")
           /\ UNCHANGED <<procs, nextPid, socks>>
  /\ sig' = {}
  /\ UNCHANGED <<disk, dirs, image, taps, rules>>
  /\ UNCHANGED <<faults, usable, started, hist>>

\* machine.PID(), ctr.PID = pid, return
StartPID(p) ==
  /\ inv[p].pc = "s_pid"
  /\ \/ StartReturns(p, inv[p], "")
     \/ StartReturns(p, [inv[p] EXCEPT !.pid = 0], "get VMM PID")
  /\ sig' = {}
  /\ UNCHANGED <<hostVars, faults, usable, started, hist>>

NextStart ==
  \/ \E p \in Slots : StartFiles(p)
  \/ \E p \in Slots : StartOpenPTY(p)
  \/ \E p \in Slots : StartSendFd(p)
  \/ \E p \in Slots : StartNewMachine(p)
  \/ \E p \in Slots : StartMachine(p)
  \/ \E p \in Slots : StartPID(p)

StartSpec == InitStart /\ [][NextStart]_vars

\* the call of Start, pending or returned, in the first slot
StartCall == inv[FirstSlot]

\* a Start with a console socket that succeeds has gone through the five steps in order
TtySequence ==
  (StartCall.pc = "returned" /\ StartCall.tty /\ last.err = "") =>
    StartCall.ev = <<"openPTY", "sendConsoleFd", "master.Close", "spawn", "slave.Close">>

\* C35: with a console socket Start allocates the PTY pair, sends the master,
\* closes the master, spawns the VMM with the slave and closes the slave, the
\* slave only after the spawn attempt; on every return path of Start, success
\* or error, no local copy of master or slave remains open.
C35_NoPtyEndLeftOpen ==
  /\ TtySequence
  /\ StartCall.pc = "returned" => (StartCall.master # "open" /\ StartCall.slave # "open")

\* ---------------------------------------------------------------------------
\* rootfs.CreateImage step by step, with the mount point {root}/{id}/mnt
\* (part_010, CreateImage)
\* ---------------------------------------------------------------------------

\* spec.Process as CreateImage reads it: absent, or with a cwd ("" or "/app")
\* and the terminal flag
NoProcess == [present |-> FALSE, cwd |-> <<>>, terminal |-> FALSE]
Processes ==
  {NoProcess} \cup {[present |-> TRUE, cwd |-> w, terminal |-> t] :
                      w \in {<<>>, <<47, 97, 112, 112>>}, t \in BOOLEAN}

\* the InitConfig CreateImage writes for a process: cwd "/" unless the spec names one
InitConfigOf(proc) ==
  [cwd |-> IF proc.present /\ proc.cwd # <<>> THEN proc.cwd ELSE <<47>>,
   terminal |-> proc.present /\ proc.terminal]

\* CreateImage is about to be called for a new container
InitImage ==
  \E id \in Ids, proc \in Processes :
    InitCall([pc |-> "i_prepare", id |-> id, proc |-> proc, mnt |-> "absent", cfg |-> "none"])

\* CreateImage returns error e ("" is nil) from slot p, the call ending as r
ImageReturns(p, r, e) ==
  /\ inv' = [inv EXCEPT ![p] = [r EXCEPT !.pc = "returned"]]
  /\ last' = [NoResult EXCEPT !.verb = "CreateImage", !.id = r.id, !.err = e]

\* a return after the defer was registered: `umount` (which may fail, the mount
\* point then staying mounted and os.Remove failing on it) and os.Remove, both
\* errors dropped
ImageReturnsDeferred(p, r, e) ==
  \E umountOk \in BOOLEAN :
    ImageReturns(p, [r EXCEPT !.mnt = IF umountOk THEN "absent" ELSE "mounted"], e)

\* MkdirAll of the state directory, dirSize, the size, truncate, mkfs.ext4
ImagePrepare(p) ==
  /\ inv[p].pc = "i_prepare"
  /\ \/ /\ dirs' = dirs \cup {inv[p].id}
        /\ image' = image \cup {inv[p].id}
        /\ inv' = [inv EXCEPT ![p].pc = "i_mkdir"]
        /\ last' = NoResult
     \/ \E e \in {"mkdir state dir", "calculate rootfs size", "truncate", "mkfs.ext4"} :
          /\ dirs' = IF e = "mkdir state dir" THEN dirs ELSE dirs \cup {inv[p].id}
          /\ image' = IF e = "mkfs.ext4" THEN image \cup {inv[p].id} ELSE image
          /\ ImageReturns(p, inv[p], e)
  /\ UNCHANGED <<disk, taps, rules, socks, procs, nextPid>>
  /\ UNCHANGED <<sig, faults, usable, started, hist>>

\* os.MkdirAll(mountPoint)
ImageMkdir(p) ==
  /\ inv[p].pc = "i_mkdir"
  /\ \/ inv' = [inv EXCEPT ![p].pc = "i_mount", ![p].mnt = "dir"] /\ last' = NoResult
     \/ ImageReturns(p, inv[p], "mkdir mount point")
  /\ UNCHANGED <<hostVars, sig, faults, usable, started, hist>>

\* `mount -o loop`; the cleanup is deferred only after it succeeded
ImageMount(p) ==
  /\ inv[p].pc = "i_mount"
  /\ \/ inv' = [inv EXCEPT ![p].pc = "i_copy", ![p].mnt = "mounted"] /\ last' = NoResult
     \/ ImageReturns(p, inv[p], "mount")
  /\ UNCHANGED <<hostVars, sig, faults, usable, started, hist>>

\* `cp -a` of the rootfs
ImageCopy(p) ==
  /\ inv[p].pc = "i_copy"
  /\ \/ inv' = [inv EXCEPT ![p].pc = "i_init"] /\ last' = NoResult
     \/ ImageReturnsDeferred(p, inv[p], "cp rootfs")
  /\ UNCHANGED <<hostVars, sig, faults, usable, started, hist>>

\* findInitBinary, mkdir /sbin, cp and chmod of dock-fire-init
ImageInit(p) ==
  /\ inv[p].pc = "i_init"
  /\ \/ inv' = [inv EXCEPT ![p].pc = "i_config"] /\ last' = NoResult
     \/ \E e \in {"find dock-fire-init", "mkdir /sbin", "cp init binary", "chmod init binary"} :
          ImageReturnsDeferred(p, inv[p], e)
  /\ UNCHANGED <<hostVars, sig, faults, usable, started, hist>>

\* the init config is built and written; CreateImage returns
ImageConfig(p) ==
  /\ inv[p].pc = "i_config"
  /\ \/ ImageReturnsDeferred(p, [inv[p] EXCEPT !.cfg = InitConfigOf(inv[p].proc)], "")
     \/ \E e \in {"mkdir config dir", "write init config"} : ImageReturnsDeferred(p, inv[p], e)
  /\ UNCHANGED <<hostVars, sig, faults, usable, started, hist>>

NextImage ==
  \/ \E p \in Slots : ImagePrepare(p)
  \/ \E p \in Slots : ImageMkdir(p)
  \/ \E p \in Slots : ImageMount(p)
  \/ \E p \in Slots : ImageCopy(p)
  \/ \E p \in Slots : ImageInit(p)
  \/ \E p \in Slots : ImageConfig(p)

ImageSpec == InitImage /\ [][NextImage]_vars

\* C36: whichever way CreateImage returns once the mount point has been
\* created (success, mount failure, rootfs copy failure, missing init binary,
\* init-config write failure), nothing is mounted on {root}/{id}/mnt and the
\* directory is gone.
C36_MountPointGone ==
  \A p \in Slots : (inv[p].pc = "returned" /\ last.verb = "CreateImage") => inv[p].mnt = "absent"

\* the state directory or the state.json of id comes into existence in this step
RecordAppears(id) ==
  \/ id \notin dirs /\ id \in dirs'
  \/ disk[id] = NoFile /\ disk'[id] # NoFile

\* this step is taken by a `create id`
CreateActs(id) ==
  \E p \in Slots :
    /\ inv'[p] # inv[p]
    /\ \/ inv[p].verb = "create" /\ inv[p].id = id
       \/ inv'[p].verb = "create" /\ inv'[p].id = id
       \/ inv[p].pc = "idle" /\ inv'[p].pc = "idle" /\ last'.verb = "create" /\ last'.id = id

\* C37: once `delete id` has removed the state directory, neither it nor a
\* state.json of that id comes back except through a create of id; a start of
\* the same id running concurrently with the delete does not bring it back.
C37_DeletedStaysDeleted ==
  [][\A id \in Ids : RecordAppears(id) => CreateActs(id)]_vars

\* C38: every record persisted by any verb has stored status created or
\* running; creating and stopped are never written, so stopped is only ever
\* the computed (effective) status.
C38_StoredCreatedOrRunning ==
  /\ \A id \in Ids : IsStored(id) => Stored(id).status \in {Created, Running}
  /\ \A id \in Ids : hist[id] \in {"", Created, Running}

\* C38 happens: a record stored as running whose VMM has exited, which `state`
\* computes to stopped without writing it
C38_Witness ==
  \E id \in Ids :
    /\ IsStored(id)
    /\ Stored(id).status = Running
    /\ EffectiveStatus(Stored(id), procs) = Stopped

\* C39: every record persisted by the runtime has pid > 0, and no signal is
\* delivered by kill or delete --force to pid 0 or to a negative pid.
C39_PidPositive ==
  /\ \A id \in Ids : IsStored(id) => Stored(id).pid > 0
  /\ \A s \in sig : s[1] > 0
  /\ \A p \in Slots : inv[p].pc \in {"save_open", "save_write", "d_net", "d_sock", "d_rm"} => inv[p].ctr.pid > 0

\* C39 happens: a delete --force has just signalled the VMM of a record
C39_Witness ==
  /\ \E p \in Slots : inv[p].verb = "delete" /\ inv[p].force /\ inv[p].ctr.pid > 0
                      /\ <<inv[p].ctr.pid, "TERM">> \in sig
  /\ \E id \in Ids : IsStored(id) /\ Stored(id).pid > 0

\* ---------------------------------------------------------------------------
\* kill and delete on a host whose pids are given out again: after the VMM of
\* a record has exited, another process of the host may receive its pid
\* ---------------------------------------------------------------------------

\* the slot that runs no invocation here and keeps the host's account of the
\* processes that are not VMMs
HostSlot == CHOOSE q \in Slots : q # FirstSlot

\* that account: the pids of the live processes create did not launch
HostAccount(foreign) ==
  [f \in DOMAIN IdleInv \cup {"foreign"} |->
     IF f = "foreign" THEN foreign ELSE IF f = "pc" THEN "host" ELSE IdleInv[f]]

\* a container was created and has or has not been started
InitReuse ==
  \E id \in Ids, st \in {Created, Running} :
    LET sub == SubnetOf(0)
        c == [ZeroCtr EXCEPT !.id = id, !.bundle = Bundle, !.status = st, !.pid = 1,
                             !.rootDir = RootDir, !.imagePath = ImagePathOf(RootDir, id),
                             !.socketPath = SocketPathOf(id), !.tapDevice = TAPName(id),
                             !.guestIP = sub.GuestIP, !.hostIP = sub.HostIP,
                             !.subnetCIDR = sub.CIDR]
    IN /\ disk = [i \in Ids |-> IF i = id THEN JsonFile(c) ELSE NoFile]
       /\ dirs = {id}
       /\ image = {id}
       /\ taps = CreateTAP([n \in {} |-> {}], TAPName(id), sub.HostIP, 0, FALSE).taps
       /\ rules = SetupNAT(EmptyBag, TAPName(id), sub.CIDR, 0).rules
       /\ socks = {SocketPathOf(id)}
       /\ procs = {1}
       /\ nextPid = 2
       /\ hist = [i \in Ids |-> IF i = id THEN st ELSE ""]
       /\ sig = {}
       /\ started = 1
       /\ inv = [p \in Slots |-> IF p = HostSlot THEN HostAccount({}) ELSE IdleInv]
       /\ last = NoResult
       /\ usable = {FirstSlot}
       /\ faults = 0

\* the host starts a process of its own, which receives the pid a VMM had
PidReused(pid) ==
  /\ pid < nextPid
  /\ pid \notin procs
  /\ procs' = procs \cup {pid}
  /\ inv' = [inv EXCEPT ![HostSlot].foreign = @ \cup {pid}]
  /\ sig' = {}
  /\ last' = NoResult
  /\ UNCHANGED <<disk, dirs, image, taps, rules, socks, nextPid>>
  /\ UNCHANGED <<faults, usable, started, hist>>

NextReuse ==
  \/ \E pid \in 1..MaxPid : VMMExit(pid)
  \/ \E pid \in 1..MaxPid : PidReused(pid)
  \/ \E p \in Slots, id \in Ids, sigStr \in SigArgs : Kill(p, id, sigStr)
  \/ \E p \in Slots, id \in Ids, force \in BOOLEAN : DeleteLoad(p, id, force)
  \/ \E p \in Slots : DeleteNet(p)
  \/ \E p \in Slots : DeleteSock(p)
  \/ \E p \in Slots : DeleteRemove(p)

ReuseSpec == InitReuse /\ [][NextReuse]_vars

\* C40: kill and delete --force deliver signals only to the VMM that create
\* launched for the record; once that VMM has exited no other process of the
\* host, one that later received the same pid included, is signalled.
C40_OnlyTheVMMSignalled ==
  [][\A s \in sig' : s[1] \notin inv[HostSlot].foreign]_vars

====
